---------------------------- MODULE Spec2Model ----------------------------
(***************************************************************************)
(* A model of the uC intermediate-representation interpreter               *)
(* (src/uc/uc_interpreter.py), of the entry of the code generator          *)
(* (src/uc/uc_code.py) and of the block builder it calls                   *)
(* (src/uc/uc_block.py).                                                   *)
(*                                                                         *)
(* The interpreter is a state machine over a flat instruction list.  One   *)
(* action models one opcode handler together with the fetch and the        *)
(* program-counter increment of Interpreter.run.  Python indices are kept  *)
(* zero-based: instruction i of the list is code[i + 1].                   *)
(***************************************************************************)
EXTENDS Integers, Sequences, FiniteSets, TLC

\* ------------------------------------------------------------- bounds ---

\* Cells of the data memory that the model keeps (the program keeps 10000).
MemSize == 8

\* Deepest recursion the driver programs ask for.
MaxDepth == 2

\* Longest line of standard input, in characters.
MaxLineLen == 3

\* Turns of the loop of _read_line at the end of the input that are
\* followed (the loop itself has no end).
MaxTurns == 3

\* ------------------------------------------------------------- values ---

\* A run-time value.  Numbers are exact fractions n/d (d = 1 for int and
\* bool); the tag t is the Python type of the value.
Uninit == [t |-> "uninit", n |-> 0, d |-> 1]

IntV(i) == [t |-> "int", n |-> i, d |-> 1]

BoolV(b) == [t |-> "bool", n |-> IF b THEN 1 ELSE 0, d |-> 1]

Abs(i) == IF i < 0 THEN -i ELSE i

RECURSIVE GCD(_, _)
GCD(a, b) == IF b = 0 THEN a ELSE GCD(b, a % b)

\* Python's floor division and modulo on integers, b # 0.
FloorDiv(a, b) == IF b > 0 THEN a \div b ELSE (-a) \div (-b)

FloorMod(a, b) == a - b * FloorDiv(a, b)

FloatV(n, d) ==
    LET g == GCD(Abs(n), Abs(d))
        s == IF d < 0 THEN -1 ELSE 1
    IN  [t |-> "float", n |-> (s * n) \div g, d |-> (s * d) \div g]

IsNumber(v) == v.t \in {"int", "bool", "float"}

IsIntLike(v) == v.t \in {"int", "bool"}

\* An exception raised while an operator is applied, as a value.
Raise(kind) == [t |-> kind, n |-> 0, d |-> 1]

IsError(v) == v.t \in {"TypeError", "ZeroDivisionError"}

\* The result of an arithmetic operator on two numbers is a float as soon
\* as one operand is a float.
Num(n, d, x, y) ==
    IF x.t = "float" \/ y.t = "float" THEN FloatV(n, d) ELSE IntV(n \div d)

\* bool(v): Uninitialized.__bool__ answers False.
Truthy(v) == IsNumber(v) /\ v.n # 0

\* str(v), as far as print shows it.
Render(v) ==
    CASE v.t = "uninit" -> <<"XXXX">>
      [] v.t = "bool"   -> IF v.n = 1 THEN <<"True">> ELSE <<"False">>
      [] v.t = "int"    -> <<"int", v.n>>
      [] v.t = "str"    -> <<"chr", v.n>>
      [] OTHER          -> <<"float", v.n, v.d>>

\* -------------------------------------------------- operator semantics ---

ArithOps == {"add", "sub", "mul", "div", "mod"}

RelOps == {"lt", "le", "gt", "ge", "eq", "ne"}

LogicOps == {"and", "or"}

\* The special methods class Uninitialized defines for an operator: the
\* binary arithmetic ones are __add__, __sub__, __mul__, __mod__,
\* __truediv__ (and __div__, which Python 3 never calls) with their
\* reflections; there is no __floordiv__.
UninitHandles == {"add", "sub", "mul", "mod", "truediv"}

\* The Python operator a handler applies: run_div picks / for the float
\* type and // for every other type.
PyOperator(op, ty) ==
    IF op = "div" THEN (IF ty = "float" THEN "truediv" ELSE "floordiv") ELSE op

\* Uninitialized._ignore: the marker absorbs the operation.
UninitArith(pyop) ==
    IF pyop \in UninitHandles THEN Uninit ELSE Raise("TypeError")

\* The comparison methods as they would be if bound to _ignore.
UninitCmpIgnored == Uninit

\* Uninitialized._cmp: every comparison answers False.
UninitCmp == BoolV(FALSE)

NumArith(pyop, x, y) ==
    CASE pyop = "add" -> Num(x.n * y.d + y.n * x.d, x.d * y.d, x, y)
      [] pyop = "sub" -> Num(x.n * y.d - y.n * x.d, x.d * y.d, x, y)
      [] pyop = "mul" -> Num(x.n * y.n, x.d * y.d, x, y)
      [] pyop = "truediv" ->
            IF y.n = 0 THEN Raise("ZeroDivisionError")
            ELSE FloatV(x.n * y.d, x.d * y.n)
      [] pyop = "floordiv" ->
            IF y.n = 0 THEN Raise("ZeroDivisionError")
            ELSE Num(FloorDiv(x.n * y.d, x.d * y.n), 1, x, y)
      [] pyop = "mod" ->
            IF y.n = 0 THEN Raise("ZeroDivisionError")
            ELSE Num(FloorMod(x.n * y.d, y.n * x.d), x.d * y.d, x, y)

NumCmp(op, x, y) ==
    LET l == x.n * y.d
        r == y.n * x.d
    IN  CASE op = "lt" -> BoolV(l < r)
          [] op = "le" -> BoolV(l <= r)
          [] op = "gt" -> BoolV(l > r)
          [] op = "ge" -> BoolV(l >= r)
          [] op = "eq" -> BoolV(l = r)
          [] op = "ne" -> BoolV(l # r)

\* op(left, right) of _run_binop for the handler of opcode op and type ty.
BinOp(op, ty, x, y) ==
    CASE op \in RelOps ->
            IF x.t = "uninit" \/ y.t = "uninit" THEN UninitCmp
            ELSE NumCmp(op, x, y)
      [] op = "and" -> IF Truthy(x) THEN y ELSE x
      [] op = "or"  -> IF Truthy(x) THEN x ELSE y
      [] OTHER ->
            IF x.t = "uninit" \/ y.t = "uninit"
            THEN UninitArith(PyOperator(op, ty))
            ELSE NumArith(PyOperator(op, ty), x, y)


\* ----------------------------------------------------------- operands ---

\* Symbolic variables: equal when kind and payload are equal.
Temp(i) == [k |-> "temp", i |-> i, s |-> ""]

Named(s) == [k |-> "named", i |-> 0, s |-> s]

Global(s) == [k |-> "global", i |-> 0, s |-> s]

Label(s) == [k |-> "label", i |-> 0, s |-> s]

None == [k |-> "none", i |-> 0, s |-> ""]

\* ------------------------------------------------------- instructions ---

\* An instruction: opcode, type and the operands its handler reads.
\*   x, y : source operands      z : target operand
\*   value: the immediate of literal      init: the initializer of global
\*   args : the formal registers of define
Instr(op, ty, x, y, z) ==
    [op |-> op, type |-> ty, x |-> x, y |-> y, z |-> z,
     value |-> Uninit, init |-> <<>>, args |-> <<>>]

AllocInstr(ty, varname) == Instr("alloc", ty, varname, None, None)

GlobalInstr(ty, varname, init) ==
    [Instr("global", ty, varname, None, None) EXCEPT !.init = init]

LoadInstr(ty, varname, target) == Instr("load", ty, varname, None, target)

StoreInstr(ty, source, target) == Instr("store", ty, source, None, target)

LiteralInstr(ty, value, target) ==
    [Instr("literal", ty, None, None, target) EXCEPT !.value = value]

BinaryOpInstruction(op, ty, left, right, target) ==
    Instr(op, ty, left, right, target)

LabelInstr(name) == Instr("label", "", Label(name), None, None)

JumpInstr(target) == Instr("jump", "", None, None, target)

CBranchInstr(test, true_target, false_target) ==
    Instr("cbranch", "", test, true_target, false_target)

DefineInstr(ty, source, args) ==
    [Instr("define", ty, source, None, None) EXCEPT !.args = args]

CallInstr(ty, source, target) == Instr("call", ty, source, None, target)

ReturnInstr(ty, target) == Instr("return", ty, None, None, target)

ParamInstr(ty, source) == Instr("param", ty, source, None, None)

ReadInstr(ty, source) == Instr("read", ty, source, None, None)

PrintInstr(ty, source) == Instr("print", ty, source, None, None)

CopyInstr(ty, source, target) == Instr("copy", ty, source, None, target)

\* sizeof(type): storage units of a value of the type.
SizeOf(ty) ==
    CASE ty = "int[2]" -> 2
      [] ty = "void"   -> 0
      [] OTHER         -> 1

\* -------------------------------------------------------------- state ---

VARIABLES
    code,       \* self.code: the flat instruction list handed to run
    M,          \* the data memory
    globals,    \* self.globals: global symbol -> address
    vars,       \* self.vars: local symbol or label -> address / index
    registers,  \* self.registers: the register bank of the current frame
    labels,     \* self.labels: function -> <<label, offset>> pairs
    offset,     \* self.offset: the memory-allocation mark
    stack,      \* self.stack: saved (vars, registers) of the callers
    sp,         \* self.sp: saved allocation marks
    params,     \* self.params: queued actual parameters
    retval,     \* self.retval: registers awaiting a return value
    returns,    \* self.returns: saved return program counters
    pc,         \* self.pc
    lastpc,     \* self.lastpc
    start,      \* self.start, -1 for None
    input,      \* self.input: the buffered line (characters)
    stdin,      \* the lines standard input still holds
    out,        \* what print wrote to standard output
    errs,       \* what printerr wrote to the error stream
    status,     \* "compiling", "new", "running", "done" (run returned),
                \* "hung" (a loop that never ends), "crashed"
    exc,        \* the exception that ended the run, "" for none
    calls,      \* history: the calls not yet returned from, as they were
    pushed,     \* history: the values param queued since the last call
    fresh,      \* history: locals of this frame allocated and not written
    ast,        \* the global declarations handed to the code generator
    gdecl,      \* visit_Program: the declaration visited next
    glob,       \* CodeGenerator.glob: the block tree
    hist,       \* history: what the calls on the block tree returned
    ev          \* history: the step just taken

vars_frame == <<vars, registers>>

vars_stacks == <<stack, sp, retval, returns>>

vars_tables == <<code, globals, labels, lastpc, start>>

vars_io == <<input, stdin, out, errs>>

vars_hist == <<calls, pushed, fresh>>

vars_gen == <<ast, gdecl, glob, hist>>

\* Everything but the block tree, the flat list and the step history.
vars_machine == <<M, globals, vars, registers, labels, offset, stack, sp,
                  params, retval, returns, pc, lastpc, start, input, stdin,
                  out, errs, exc, calls, pushed, fresh, ast, gdecl>>

vars_all == <<code, M, globals, vars, registers, labels, offset, stack, sp,
              params, retval, returns, pc, lastpc, start, input, stdin, out,
              errs, status, exc, calls, pushed, fresh, ast, gdecl, glob, hist,
              ev>>

\* ------------------------------------------------------------ helpers ---

EmptyMap == [k \in {} |-> 0]

Put(f, key, val) ==
    [k \in DOMAIN f \cup {key} |-> IF k = key THEN val ELSE f[k]]

Last(s) == s[Len(s)]

Front(s) == SubSeq(s, 1, Len(s) - 1)

\* The history record of a call: the caller's frame as the call found it.
NoCall ==
    [at |-> -1, vars |-> EmptyMap, registers |-> <<>>, offset |-> 0,
     target |-> None, pushed |-> <<>>, fresh |-> {}]

\* The history record of a step: the opcode run, its index, and for a
\* return the matched call, the operand of the return and the value that
\* operand had; for a define the call that entered it; for a binary
\* operation the two values read.  ncall and nret count the call and the
\* return instructions executed so far.
Event(op) ==
    [op |-> op, at |-> pc, call |-> NoCall, operand |-> None, val |-> Uninit,
     unwritten |-> FALSE, values |-> << >>, ncall |-> ev.ncall,
     nret |-> ev.nret]

\* The instruction Interpreter.run fetched.
Fetched == code[pc + 1]

\* Interpreter.run found an instruction of this opcode at self.pc.
Running(op) ==
    /\ status = "running"
    /\ pc \in 0 .. Len(code) - 1
    /\ Fetched.op = op

\* An exception leaves the handler and run: nothing catches it.
Crash(kind) ==
    /\ status' = "crashed"
    /\ exc' = kind

Continue ==
    /\ status' = status
    /\ exc' = exc

\* ------------------------------------------------------- memory & i/o ---

\* _alloc_data: the address handed out; the mark moves by the size.
_alloc_data(size) == offset + size

\* _alloc_reg: the bank grown so that register r exists.
_alloc_reg(regs, r) ==
    IF Len(regs) <= r
    THEN regs \o [i \in 1 .. (r + 1 - Len(regs)) |-> Uninit]
    ELSE regs

\* _get_label: globals for a global symbol, the local table otherwise.
HasLabel(source) ==
    IF source.k = "global" THEN source \in DOMAIN globals
    ELSE source \in DOMAIN vars

_get_label(source) ==
    IF source.k = "global" THEN globals[source] ELSE vars[source]

\* _get_value: a temporary reads its register (growing the bank), any
\* other symbol yields its address.
CanGetValue(source) == source.k = "temp" \/ HasLabel(source)

_get_value(regs, source) ==
    IF source.k = "temp" THEN _alloc_reg(regs, source.i)[source.i + 1]
    ELSE IntV(_get_label(source))

RegsAfterGet(regs, source) ==
    IF source.k = "temp" THEN _alloc_reg(regs, source.i) ELSE regs

SetReg(regs, r, v) == [regs EXCEPT ![r + 1] = v]

\* M[a] with a Python list index: negative indices count from the end.
IndexOk(v) == IsIntLike(v) /\ v.n \in (-MemSize) .. (MemSize - 1)

Index(v) == IF v.n < 0 THEN v.n + MemSize ELSE v.n

\* _load_value / _load_multiple(source, 1)[0]: the slice M[a : a + 1] is
\* empty when a is outside the list or a = -1.
LoadOk(v) ==
    /\ IsIntLike(v)
    /\ v.n \in (0 .. MemSize - 1) \cup ((-MemSize) .. -2)

\* _store_value with a list: M[a : a + len] = value.
RECURSIVE StoreSlice(_, _, _)
StoreSlice(mem, a, vals) ==
    IF vals = <<>> \/ a >= MemSize THEN mem
    ELSE StoreSlice([mem EXCEPT ![a] = Head(vals)], a + 1, Tail(vals))

\* History: the locals of the set whose cell is at none of the addresses.
Unwritten(set, addresses) == {v \in set : vars[v] \notin addresses}

\* ---------------------------------------------------------- execution ---

\* The scan as it would be if every global took one cell whatever its type.
RECURSIVE PrepareScanOneSlot(_, _, _)
PrepareScanOneSlot(c, i, acc) ==
    IF i >= Len(c) \/ acc.exc # "" THEN acc
    ELSE
      LET instr == c[i + 1] IN
      PrepareScanOneSlot(c, i + 1,
        CASE instr.op = "global" ->
               [acc EXCEPT !.globals = Put(@, instr.x, acc.offset),
                           !.M = StoreSlice(@, acc.offset, instr.init),
                           !.offset = @ + 1]
          [] instr.op = "define" ->
               [acc EXCEPT !.hasCur = TRUE,
                           !.cur = instr.x,
                           !.curpc = i,
                           !.globals = Put(@, instr.x, acc.offset),
                           !.labels = Put(@, instr.x, <<>>),
                           !.M = [@ EXCEPT ![acc.offset] = IntV(i)],
                           !.offset = @ + 1,
                           !.start = IF instr.x.s = ".start" THEN i ELSE @]
          [] instr.op = "label" ->
               IF ~acc.hasCur THEN [acc EXCEPT !.exc = "TypeError"]
               ELSE [acc EXCEPT !.labels =
                        [@ EXCEPT ![acc.cur] =
                            Append(@, <<Label(instr.x.s), i - acc.curpc>>)]]
          [] OTHER -> acc)

\* _prepare_globals: one scan of the list.  acc carries the tables being
\* filled, the current function (cur, curpc; hasCur is FALSE for None) and
\* the exception raised, if any.
RECURSIVE PrepareScan(_, _, _)
PrepareScan(c, i, acc) ==
    IF i >= Len(c) \/ acc.exc # "" THEN acc
    ELSE
      LET instr == c[i + 1] IN
      PrepareScan(c, i + 1,
        CASE instr.op = "global" ->
               [acc EXCEPT !.globals = Put(@, instr.x, acc.offset),
                           !.M = StoreSlice(@, acc.offset, instr.init),
                           !.offset = @ + SizeOf(instr.type)]
          [] instr.op = "define" ->
               [acc EXCEPT !.hasCur = TRUE,
                           !.cur = instr.x,
                           !.curpc = i,
                           !.globals = Put(@, instr.x, acc.offset),
                           !.labels = Put(@, instr.x, <<>>),
                           !.M = [@ EXCEPT ![acc.offset] = IntV(i)],
                           !.offset = @ + 1,
                           !.start = IF instr.x.s = ".start" THEN i ELSE @]
          [] instr.op = "label" ->
               IF ~acc.hasCur THEN [acc EXCEPT !.exc = "TypeError"]
               ELSE [acc EXCEPT !.labels =
                        [@ EXCEPT ![acc.cur] =
                            Append(@, <<Label(instr.x.s), i - acc.curpc>>)]]
          [] OTHER -> acc)

_prepare_globals(c) ==
    LET acc == PrepareScan(c, 0,
                 [globals |-> globals, labels |-> labels, M |-> M,
                  offset |-> 0, start |-> -1, hasCur |-> FALSE,
                  cur |-> None, curpc |-> 0, exc |-> ""])
    IN  \* "return pc + 1": pc is unbound when the list is empty
        IF acc.exc = "" /\ Len(c) = 0
        THEN [acc EXCEPT !.exc = "UnboundLocalError"]
        ELSE acc

\* Interpreter.run up to the loop: prepare the globals, pick the entry.
run ==
    /\ status = "new"
    /\ LET r == _prepare_globals(code) IN
       /\ globals' = r.globals
       /\ labels' = r.labels
       /\ M' = r.M
       /\ offset' = r.offset
       /\ start' = r.start
       /\ IF r.exc # ""
          THEN /\ Crash(r.exc)
               /\ UNCHANGED <<lastpc, pc>>
          ELSE /\ lastpc' = Len(code)
               /\ pc' = IF r.start # -1 THEN r.start ELSE Len(code)
               /\ status' = "running"
               /\ exc' = exc
    /\ ev' = Event("run")
    /\ UNCHANGED <<vars_gen, code, vars_frame, vars_stacks, params, vars_io,
                   vars_hist>>

\* The loop of Interpreter.run ends when the fetch raises IndexError.
Halt ==
    /\ status = "running"
    /\ pc \notin (-Len(code)) .. (Len(code) - 1)
    /\ status' = "done"
    /\ ev' = Event("halt")
    /\ UNCHANGED <<vars_gen, M, vars_frame, vars_stacks, vars_tables, vars_io,
                   offset, params, pc, exc, vars_hist>>

\* A label instruction has no handler and is passed over silently.
run_label ==
    /\ Running("label")
    /\ pc' = pc + 1
    /\ ev' = Event("label")
    /\ UNCHANGED <<vars_gen, M, vars_frame, vars_stacks, vars_tables, vars_io,
                   offset, params, status, exc, vars_hist>>

\* The opcodes for which Interpreter has a run_<opname> method.
HandledOps ==
    {"alloc", "call", "cbranch", "define", "elem", "exit", "get", "jump",
     "literal", "load", "param", "print", "read", "return", "store", "not",
     "sitofp", "fptosi"} \cup ArithOps \cup RelOps \cup LogicOps

\* f"Warning: No run_{instr.opname}() method"
Warning(op) ==
    CASE op = "global" -> "Warning: No run_global() method"
      [] op = "copy"   -> "Warning: No run_copy() method"
      [] OTHER         -> "Warning: No run_() method"

\* The dispatch as it would be if a missing handler ended the run.
run_unhandled_fatal ==
    /\ status = "running"
    /\ pc \in 0 .. Len(code) - 1
    /\ Fetched.op \notin HandledOps \cup {"label"}
    /\ pc' = pc + 1
    /\ Crash("AttributeError")
    /\ ev' = Event(Fetched.op)
    /\ UNCHANGED <<vars_gen, M, vars_frame, vars_stacks, vars_tables, vars_io,
                   offset, params, vars_hist>>

\* getattr finds no executor and the instruction is no LabelInstr: the
\* warning is printed and the loop goes on.
run_unhandled ==
    /\ status = "running"
    /\ pc \in 0 .. Len(code) - 1
    /\ Fetched.op \notin HandledOps \cup {"label"}
    /\ pc' = pc + 1
    /\ errs' = Append(errs, Warning(Fetched.op))
    /\ ev' = Event(Fetched.op)
    /\ UNCHANGED <<vars_gen, M, vars_frame, vars_stacks, vars_tables, input,
                   stdin, out, offset, params, status, exc, vars_hist>>

run_alloc ==
    /\ Running("alloc")
    /\ pc' = pc + 1
    /\ offset' = _alloc_data(SizeOf(Fetched.type))
    /\ IF Fetched.x.k = "temp"
       THEN /\ registers' = SetReg(_alloc_reg(registers, Fetched.x.i),
                                   Fetched.x.i, IntV(offset))
            /\ vars' = vars
       ELSE /\ vars' = Put(vars, Fetched.x, offset)
            /\ registers' = registers
    /\ fresh' = IF Fetched.x.k = "temp" THEN fresh ELSE fresh \cup {Fetched.x}
    /\ ev' = Event("alloc")
    /\ UNCHANGED <<vars_gen, M, vars_stacks, vars_tables, vars_io, params,
                   status, exc, calls, pushed>>

run_literal ==
    /\ Running("literal")
    /\ pc' = pc + 1
    /\ registers' = SetReg(_alloc_reg(registers, Fetched.z.i), Fetched.z.i,
                           Fetched.value)
    /\ ev' = Event("literal")
    /\ UNCHANGED <<vars_gen, M, vars, vars_stacks, vars_tables, vars_io,
                   offset, params, status, exc, vars_hist>>

\* run_load: the target register is allocated first, then the address is
\* read and the cell loaded.
run_load ==
    /\ Running("load")
    /\ pc' = pc + 1
    /\ LET regs0 == _alloc_reg(registers, Fetched.z.i)
           regs1 == RegsAfterGet(regs0, Fetched.x)
       IN  IF ~CanGetValue(Fetched.x)
           THEN Crash("KeyError") /\ registers' = regs0
           ELSE LET address == _get_value(regs0, Fetched.x) IN
                CASE ~IsIntLike(address) ->
                       Crash("KeyError") /\ registers' = regs1
                  [] IsIntLike(address) /\ ~LoadOk(address) ->
                       Crash("IndexError") /\ registers' = regs1
                  [] OTHER ->
                       /\ Continue
                       /\ registers' =
                            SetReg(regs1, Fetched.z.i, M[Index(address)])
    /\ ev' = [Event("load") EXCEPT
                !.operand = Fetched.x,
                !.unwritten = Fetched.x \in fresh,
                !.val = IF status' = "running"
                        THEN registers'[Fetched.z.i + 1] ELSE Uninit]
    /\ UNCHANGED <<vars_gen, M, vars, vars_stacks, vars_tables, vars_io,
                   offset, params, vars_hist>>

run_store ==
    /\ Running("store")
    /\ pc' = pc + 1
    /\ LET regs1 == RegsAfterGet(registers, Fetched.x)
           regs2 == RegsAfterGet(regs1, Fetched.z)
       IN  CASE ~CanGetValue(Fetched.x) ->
                  Crash("KeyError") /\ registers' = registers /\ M' = M
             [] CanGetValue(Fetched.x) /\ ~CanGetValue(Fetched.z) ->
                  Crash("KeyError") /\ registers' = regs1 /\ M' = M
             [] OTHER ->
                  LET value == _get_value(registers, Fetched.x)
                      target == _get_value(regs1, Fetched.z)
                  IN  /\ registers' = regs2
                      /\ IF IndexOk(target)
                         THEN Continue /\ M' = [M EXCEPT ![Index(target)] = value]
                         ELSE /\ M' = M
                              /\ Crash(IF IsIntLike(target) THEN "IndexError"
                                       ELSE "TypeError")
    /\ fresh' = IF status' = "running"
                THEN Unwritten(fresh,
                       {Index(_get_value(RegsAfterGet(registers, Fetched.x),
                                         Fetched.z))})
                ELSE fresh
    /\ ev' = Event("store")
    /\ UNCHANGED <<vars_gen, vars, vars_stacks, vars_tables, vars_io, offset,
                   params, calls, pushed>>

run_print ==
    /\ Running("print")
    /\ pc' = pc + 1
    /\ IF Fetched.x.k = "none"
       THEN /\ out' = Append(out, <<"\n">>)
            /\ registers' = registers
            /\ Continue
       ELSE IF ~CanGetValue(Fetched.x)
       THEN /\ Crash("KeyError")
            /\ UNCHANGED <<out, registers>>
       ELSE /\ out' = Append(out, Render(_get_value(registers, Fetched.x)))
            /\ registers' = RegsAfterGet(registers, Fetched.x)
            /\ Continue
    /\ ev' = Event("print")
    /\ UNCHANGED <<vars_gen, M, vars, vars_stacks, vars_tables, input, stdin,
                   errs, offset, params, vars_hist>>

\* _run_binop: read left, read right, allocate the target, apply.
_run_binop ==
    /\ pc' = pc + 1
    /\ LET regs1 == RegsAfterGet(registers, Fetched.x)
           regs2 == RegsAfterGet(regs1, Fetched.y)
           regs3 == _alloc_reg(regs2, Fetched.z.i)
       IN  CASE ~CanGetValue(Fetched.x) ->
                  Crash("KeyError") /\ registers' = registers
             [] CanGetValue(Fetched.x) /\ ~CanGetValue(Fetched.y) ->
                  Crash("KeyError") /\ registers' = regs1
             [] OTHER ->
                  LET left == _get_value(registers, Fetched.x)
                      right == _get_value(regs1, Fetched.y)
                      result == BinOp(Fetched.op, Fetched.type, left, right)
                  IN  IF IsError(result)
                      THEN Crash(result.t) /\ registers' = regs3
                      ELSE Continue
                           /\ registers' = SetReg(regs3, Fetched.z.i, result)
    /\ ev' = [Event(Fetched.op) EXCEPT
                !.values = IF CanGetValue(Fetched.x) /\ CanGetValue(Fetched.y)
                           THEN << _get_value(registers, Fetched.x),
                                   _get_value(RegsAfterGet(registers, Fetched.x),
                                              Fetched.y) >>
                           ELSE << >>]
    /\ UNCHANGED <<vars_gen, M, vars, vars_stacks, vars_tables, vars_io,
                   offset, params, vars_hist>>

\* run_add, run_sub, run_mul, run_mod, run_div
run_arith ==
    /\ status = "running"
    /\ pc \in 0 .. Len(code) - 1
    /\ Fetched.op \in ArithOps
    /\ _run_binop

\* run_lt, run_le, run_gt, run_ge, run_eq, run_ne
run_compare ==
    /\ status = "running"
    /\ pc \in 0 .. Len(code) - 1
    /\ Fetched.op \in RelOps
    /\ _run_binop

run_param ==
    /\ Running("param")
    /\ pc' = pc + 1
    /\ IF ~CanGetValue(Fetched.x)
       THEN /\ Crash("KeyError")
            /\ UNCHANGED <<params, registers, pushed>>
       ELSE /\ Continue
            /\ params' = Append(params, _get_value(registers, Fetched.x))
            /\ pushed' = Append(pushed, _get_value(registers, Fetched.x))
            /\ registers' = RegsAfterGet(registers, Fetched.x)
    /\ ev' = Event("param")
    /\ UNCHANGED <<vars_gen, M, vars, vars_stacks, vars_tables, vars_io,
                   offset, calls, fresh>>

run_jump ==
    /\ Running("jump")
    /\ IF Fetched.z \in DOMAIN vars
       THEN Continue /\ pc' = vars[Fetched.z]
       ELSE Crash("KeyError") /\ pc' = pc + 1
    /\ ev' = Event("jump")
    /\ UNCHANGED <<vars_gen, M, vars_frame, vars_stacks, vars_tables, vars_io,
                   offset, params, vars_hist>>

run_cbranch ==
    /\ Running("cbranch")
    /\ LET target == IF Truthy(_get_value(registers, Fetched.x))
                     THEN Fetched.y ELSE Fetched.z
       IN  IF ~CanGetValue(Fetched.x)
           THEN Crash("KeyError") /\ pc' = pc + 1 /\ registers' = registers
           ELSE /\ registers' = RegsAfterGet(registers, Fetched.x)
                /\ CASE target.k = "none" -> Continue /\ pc' = pc + 1
                     [] target.k # "none" /\ HasLabel(target) ->
                          Continue /\ pc' = _get_label(target)
                     [] OTHER -> Crash("KeyError") /\ pc' = pc + 1
    /\ ev' = Event("cbranch")
    /\ UNCHANGED <<vars_gen, M, vars, vars_stacks, vars_tables, vars_io,
                   offset, params, vars_hist>>

\* --------------------------------------------------- calls and returns ---

\* _push as it would be if it saved the index of the call itself rather
\* than the already advanced self.pc.
_push_at_call(target) ==
    LET reg == IF target.k = "none" THEN 0 ELSE target.i IN
    /\ stack' = Append(stack, [vars |-> vars,
                               registers |-> _alloc_reg(registers, reg)])
    /\ registers' = <<>>
    /\ sp' = Append(sp, offset)
    /\ retval' = Append(retval, reg)
    /\ returns' = Append(returns, pc)

\* _push as it would be if the allocation mark were not saved.
_push_without_mark(target) ==
    LET reg == IF target.k = "none" THEN 0 ELSE target.i IN
    /\ stack' = Append(stack, [vars |-> vars,
                               registers |-> _alloc_reg(registers, reg)])
    /\ registers' = <<>>
    /\ sp' = sp
    /\ retval' = Append(retval, reg)
    /\ returns' = Append(returns, pc + 1)

\* _push: the register awaiting the result is "target or 0"; the caller's
\* table and bank, the mark and the return index are saved, and the bank
\* is replaced by an empty one.  self.pc is already past the call.
_push(target) ==
    LET reg == IF target.k = "none" THEN 0 ELSE target.i IN
    /\ stack' = Append(stack, [vars |-> vars,
                               registers |-> _alloc_reg(registers, reg)])
    /\ registers' = <<>>
    /\ sp' = Append(sp, offset)
    /\ retval' = Append(retval, reg)
    /\ returns' = Append(returns, pc + 1)

\* _pop as it would be if it popped the saved mark without assigning it.
_pop_keeps_offset(regs) ==
    IF Len(regs) = 0 \/ Len(stack) = 0
    THEN /\ Crash("IndexError")
         /\ registers' = regs
         /\ pc' = pc + 1
         /\ UNCHANGED <<vars, offset, vars_stacks>>
    ELSE /\ Continue
         /\ vars' = Last(stack).vars
         /\ registers' = SetReg(Last(stack).registers, Last(retval), regs[1])
         /\ offset' = offset
         /\ pc' = Last(returns)
         /\ stack' = Front(stack)
         /\ sp' = Front(sp)
         /\ retval' = Front(retval)
         /\ returns' = Front(returns)

\* _pop as it would be if the result went to register 0 of the caller
\* rather than to the register saved by _push.
_pop_into_zero(regs) ==
    IF Len(regs) = 0 \/ Len(stack) = 0
    THEN /\ Crash("IndexError")
         /\ registers' = regs
         /\ pc' = pc + 1
         /\ UNCHANGED <<vars, offset, vars_stacks>>
    ELSE /\ Continue
         /\ vars' = Last(stack).vars
         /\ registers' = SetReg(Last(stack).registers, 0, regs[1])
         /\ offset' = Last(sp)
         /\ pc' = Last(returns)
         /\ stack' = Front(stack)
         /\ sp' = Front(sp)
         /\ retval' = Front(retval)
         /\ returns' = Front(returns)

\* _pop as it would be if the frame were given up before the stack of
\* frames is found empty.
_pop_drops_frame(regs) ==
    IF Len(regs) = 0
    THEN /\ Crash("IndexError")
         /\ registers' = regs
         /\ pc' = pc + 1
         /\ UNCHANGED <<vars, offset, vars_stacks>>
    ELSE IF Len(stack) = 0
    THEN /\ Crash("IndexError")
         /\ vars' = EmptyMap
         /\ registers' = << >>
         /\ offset' = 0
         /\ pc' = pc + 1
         /\ UNCHANGED vars_stacks
    ELSE /\ Continue
         /\ vars' = Last(stack).vars
         /\ registers' = SetReg(Last(stack).registers, Last(retval), regs[1])
         /\ offset' = Last(sp)
         /\ pc' = Last(returns)
         /\ stack' = Front(stack)
         /\ sp' = Front(sp)
         /\ retval' = Front(retval)
         /\ returns' = Front(returns)

\* _pop, entered with the bank regs: register 0 of the callee is the
\* result; the caller's table, bank, mark and return index come back.
_pop(regs) ==
    IF Len(regs) = 0 \/ Len(stack) = 0
    THEN /\ Crash("IndexError")
         /\ registers' = regs
         /\ pc' = pc + 1
         /\ UNCHANGED <<vars, offset, vars_stacks>>
    ELSE /\ Continue
         /\ vars' = Last(stack).vars
         /\ registers' = SetReg(Last(stack).registers, Last(retval), regs[1])
         /\ offset' = Last(sp)
         /\ pc' = Last(returns)
         /\ stack' = Front(stack)
         /\ sp' = Front(sp)
         /\ retval' = Front(retval)
         /\ returns' = Front(returns)

\* run_call: push, then jump to the index stored at the callee's address.
run_call ==
    /\ Running("call")
    /\ _push(Fetched.z)
    /\ calls' = Append(calls, [at |-> pc, vars |-> vars,
                               registers |-> registers, offset |-> offset,
                               target |-> Fetched.z, pushed |-> pushed,
                               fresh |-> fresh])
    /\ pushed' = <<>>
    /\ fresh' = {}
    /\ CASE ~HasLabel(Fetched.x) -> Crash("KeyError") /\ pc' = pc + 1
         [] HasLabel(Fetched.x) /\ ~LoadOk(IntV(_get_label(Fetched.x))) ->
              Crash("IndexError") /\ pc' = pc + 1
         [] OTHER ->
              LET entry == M[Index(IntV(_get_label(Fetched.x)))] IN
              IF IsIntLike(entry)
              THEN Continue /\ pc' = entry.n
              ELSE \* the next fetch indexes the list with a non-integer
                   Crash("TypeError") /\ pc' = pc + 1
    /\ ev' = [Event("call") EXCEPT !.ncall = @ + 1]
    /\ UNCHANGED <<vars_gen, M, vars, vars_tables, vars_io, offset, params>>

\* The loop of run_define as it would be over define.args, not reversed.
RECURSIVE BindParamsInOrder(_, _, _)
BindParamsInOrder(regs, args, queue) ==
    IF args = <<>> THEN regs
    ELSE LET r == Head(args).i
             grown == _alloc_reg(regs, r)
         IN  IF queue # <<>>
             THEN BindParamsInOrder(SetReg(grown, r, Last(queue)), Tail(args),
                                    Front(queue))
             ELSE BindParamsInOrder(grown, Tail(args), queue)

\* The loop of run_define over reversed(define.args).
RECURSIVE BindParams(_, _, _)
BindParams(regs, args, queue) ==
    IF args = <<>> THEN regs
    ELSE LET r == Last(args).i
             grown == _alloc_reg(regs, r)
         IN  IF queue # <<>>
             THEN BindParams(SetReg(grown, r, Last(queue)), Front(args),
                             Front(queue))
             ELSE BindParams(grown, Front(args), queue)

\* _alloc_labels as it would be if the offsets recorded by the scan were
\* taken as indices of the list, not added to self.pc.
RECURSIVE _alloc_labels_absolute(_, _, _)
_alloc_labels_absolute(table, pairs, base) ==
    IF pairs = <<>> THEN table
    ELSE _alloc_labels_absolute(Put(table, Head(pairs)[1], Head(pairs)[2]),
                                Tail(pairs), base)

\* _alloc_labels: every label of the function, relative to self.pc.
RECURSIVE _alloc_labels(_, _, _)
_alloc_labels(table, pairs, base) ==
    IF pairs = <<>> THEN table
    ELSE _alloc_labels(Put(table, Head(pairs)[1], base + Head(pairs)[2]),
                       Tail(pairs), base)

\* run_define as it would be if the caller's table were kept and the
\* labels of the function added to it.
run_define_keeps_vars ==
    /\ Running("define")
    /\ pc' = pc + 1
    /\ registers' = BindParams(registers, Fetched.args, params)
    /\ params' = <<>>
    /\ vars' = _alloc_labels(vars, labels[Fetched.x], pc + 1)
    /\ ev' = [Event("define") EXCEPT
                !.call = IF ev.op = "call" THEN Last(calls) ELSE NoCall]
    /\ fresh' = {}
    /\ UNCHANGED <<vars_gen, M, vars_stacks, vars_tables, vars_io, offset,
                   status, exc, calls, pushed>>

run_define ==
    /\ Running("define")
    /\ pc' = pc + 1
    /\ registers' = BindParams(registers, Fetched.args, params)
    /\ params' = <<>>
    /\ vars' = _alloc_labels(EmptyMap, labels[Fetched.x], pc + 1)
    /\ ev' = [Event("define") EXCEPT
                !.call = IF ev.op = "call" THEN Last(calls) ELSE NoCall]
    /\ fresh' = {}
    /\ UNCHANGED <<vars_gen, M, vars_stacks, vars_tables, vars_io, offset,
                   status, exc, calls, pushed>>

\* run_return: an operand is copied to register 0 of the current bank,
\* then the frame is popped.
run_return ==
    /\ Running("return")
    /\ LET given == Fetched.z.k # "none"
           grown == RegsAfterGet(registers, Fetched.z)
       IN  CASE given /\ ~CanGetValue(Fetched.z) ->
                  /\ Crash("KeyError")
                  /\ pc' = pc + 1
                  /\ UNCHANGED <<vars_frame, offset, vars_stacks>>
             [] given /\ CanGetValue(Fetched.z) /\ Len(grown) = 0 ->
                  /\ Crash("IndexError")
                  /\ pc' = pc + 1
                  /\ UNCHANGED <<vars_frame, offset, vars_stacks>>
             [] given /\ CanGetValue(Fetched.z) /\ Len(grown) > 0 ->
                  _pop(SetReg(grown, 0, _get_value(registers, Fetched.z)))
             [] OTHER -> _pop(registers)
    /\ IF status' = "running"
       THEN /\ calls' = Front(calls)
            /\ fresh' = Last(calls).fresh
            /\ ev' = [Event("return") EXCEPT
                        !.nret = @ + 1,
                        !.call = Last(calls),
                        !.operand = Fetched.z,
                        !.val = IF Fetched.z.k # "none"
                                THEN _get_value(registers, Fetched.z)
                                ELSE Uninit]
       ELSE /\ calls' = calls
            /\ fresh' = fresh
            /\ ev' = Event("return")
    /\ UNCHANGED <<vars_gen, M, vars_tables, vars_io, params, pushed>>

\* -------------------------------------------------------------- input ---

\* The characters an input line is made of.
Digits == {"1", "2"}

Alphabet == Digits \cup {"x", " "}

DigitVal(ch) == IF ch = "1" THEN 1 ELSE 2

CharV(ch) ==
    [t |-> "str",
     n |-> CASE ch = "1" -> 49 [] ch = "2" -> 50 [] ch = " " -> 32
             [] OTHER -> 120,
     d |-> 1]

\* _read_line: lines are taken from standard input until the buffer is
\* not empty; the result is the buffer and the lines left.  At the end of
\* the input readline() keeps answering "" and the loop never ends.
RECURSIVE ReadLine(_, _)
ReadLine(buf, lines) ==
    IF buf # <<>> THEN [hung |-> FALSE, input |-> buf, stdin |-> lines]
    ELSE IF lines = <<>> THEN [hung |-> TRUE, input |-> buf, stdin |-> lines]
    ELSE ReadLine(Head(lines), Tail(lines))

\* line.split(" ", maxsplit=1): the index of the first space, 0 for none.
RECURSIVE FirstSpace(_, _)
FirstSpace(line, i) ==
    IF i > Len(line) THEN 0
    ELSE IF line[i] = " " THEN i
    ELSE FirstSpace(line, i + 1)

\* int(word) / float(word) on a word that holds no space: a non-empty run
\* of digits is a number, anything else raises ValueError.
IsNumeral(word) ==
    /\ word # <<>>
    /\ \A i \in 1 .. Len(word) : word[i] \in Digits

RECURSIVE Numeral(_)
Numeral(word) ==
    IF word = <<>> THEN 0
    ELSE 10 * Numeral(Front(word)) + DigitVal(Last(word))

\* The conversion as it would be if a word that is no number read as 0
\* and a line of one word were accepted.
ReadValueDefault(ty, line) ==
    LET sp1 == FirstSpace(line, 1)
        word == IF sp1 = 0 THEN line ELSE SubSeq(line, 1, sp1 - 1)
        rest == IF sp1 = 0 THEN << >> ELSE SubSeq(line, sp1 + 1, Len(line))
    IN  [error |-> FALSE, input |-> rest,
         vals |-> << IF IsNumeral(word) THEN IntV(Numeral(word))
                     ELSE IntV(0) >>]

\* The try block of run_read up to the value: what was read, the buffer
\* afterwards, and whether ValueError was raised.
ReadValue(ty, line) ==
    LET sp1 == FirstSpace(line, 1)
        word == SubSeq(line, 1, sp1 - 1)
        rest == SubSeq(line, sp1 + 1, Len(line))
    IN  CASE ty \in {"int", "float"} /\ sp1 = 0 ->
               \* [word, remainder] = ... cannot unpack one element
               [error |-> TRUE, input |-> line, vals |-> <<>>]
          [] ty \in {"int", "float"} /\ sp1 # 0 /\ ~IsNumeral(word) ->
               [error |-> TRUE, input |-> rest, vals |-> <<>>]
          [] ty = "int" /\ sp1 # 0 /\ IsNumeral(word) ->
               [error |-> FALSE, input |-> rest,
                vals |-> <<IntV(Numeral(word))>>]
          [] ty = "float" /\ sp1 # 0 /\ IsNumeral(word) ->
               [error |-> FALSE, input |-> rest,
                vals |-> <<FloatV(Numeral(word), 1)>>]
          [] ty = "char" ->
               [error |-> FALSE, input |-> Tail(line),
                vals |-> <<CharV(Head(line))>>]
          [] OTHER ->
               [error |-> FALSE, input |-> line,
                vals |-> [i \in 1 .. Len(line) |-> CharV(line[i])]]

\* run_read: read and convert, then resolve the destination and store;
\* ValueError alone is caught and reported.
run_read ==
    /\ Running("read")
    /\ pc' = pc + 1
    /\ LET got == ReadLine(input, stdin) IN
       IF got.hung
       THEN /\ status' = "hung"
            /\ exc' = exc
            /\ errs' = Append(errs, "Unexpected end of input file.")
            /\ input' = got.input
            /\ stdin' = got.stdin
            /\ UNCHANGED <<M, registers, fresh>>
       ELSE
         LET rd == ReadValue(Fetched.type, got.input)
             source == _get_value(registers, Fetched.x)
         IN  /\ stdin' = got.stdin
             /\ input' = rd.input
             /\ CASE rd.error ->
                       /\ Continue
                       /\ errs' = Append(errs, "Illegal input value.")
                       /\ UNCHANGED <<M, registers, fresh>>
                  [] ~rd.error /\ ~CanGetValue(Fetched.x) ->
                       /\ Crash("KeyError")
                       /\ UNCHANGED <<M, registers, errs, fresh>>
                  [] ~rd.error /\ CanGetValue(Fetched.x)
                        /\ ~IsIntLike(source) ->
                       \* _store_value calls self._get_address
                       /\ Crash("AttributeError")
                       /\ registers' = RegsAfterGet(registers, Fetched.x)
                       /\ UNCHANGED <<M, errs, fresh>>
                  [] ~rd.error /\ CanGetValue(Fetched.x)
                        /\ IsIntLike(source) /\ ~IndexOk(source) ->
                       /\ Crash("IndexError")
                       /\ registers' = RegsAfterGet(registers, Fetched.x)
                       /\ UNCHANGED <<M, errs, fresh>>
                  [] OTHER ->
                       /\ Continue
                       /\ registers' = RegsAfterGet(registers, Fetched.x)
                       /\ M' = IF Fetched.type \in {"int", "float", "char"}
                               THEN [M EXCEPT ![Index(source)] = rd.vals[1]]
                               ELSE StoreSlice(M, Index(source), rd.vals)
                       /\ errs' = errs
                       /\ fresh' = Unwritten(fresh,
                            Index(source) ..
                              (Index(source) + Len(rd.vals) - 1))
    /\ ev' = Event("read")
    /\ UNCHANGED <<vars_gen, vars, vars_stacks, vars_tables, out, offset,
                   params, calls, pushed>>

\* How often the end of the input has been reported.
EndReports ==
    Cardinality({i \in DOMAIN errs :
                   errs[i] = "Unexpected end of input file."})

\* _read_line at the end of the input: readline() answers "" again, the
\* message is printed again, the buffer is still empty and the loop goes
\* round once more.  Nothing in the loop leaves it.
_read_line_again ==
    /\ status = "hung"
    /\ EndReports < MaxTurns
    /\ errs' = Append(errs, "Unexpected end of input file.")
    /\ UNCHANGED <<code, M, globals, vars, registers, labels, offset, stack,
                   sp, params, retval, returns, pc, lastpc, start, input,
                   stdin, out, status, exc, calls, pushed, fresh, ast, gdecl,
                   glob, hist, ev>>

\* --------------------------------------------------------- block tree ---

\* TextVariable(typename, version): the name is the dataclass field, the
\* version a slot beside it.
TextVariable(name, version) == [k |-> "text", i |-> version, s |-> name]

\* TextVariable.__str__: f"@.const_{self.name}.{self.version}".
TextVariable__str__(v) == "@.const_" \o v.s \o "." \o ToString(v.i)

\* Variable.__eq__ as @dataclass generates it: the same class and the same
\* fields, and name is the only field.
VariableEq(a, b) ==
    /\ a.k = b.k
    /\ IF a.k = "temp" THEN a.i = b.i ELSE a.s = b.s

\* A dict keyed by variables: the entry a key selects, and item assignment.
DictHas(d, key) == \E e \in DOMAIN d : VariableEq(d[e][1], key)

DictGet(d, key) ==
    d[CHOOSE e \in DOMAIN d : VariableEq(d[e][1], key)][2]

DictSet(d, key, val) ==
    IF DictHas(d, key)
    THEN [e \in DOMAIN d |->
            IF VariableEq(d[e][1], key) THEN <<d[e][1], val>> ELSE d[e]]
    ELSE Append(d, <<key, val>>)

\* CountedBlock: a defaultdict of counters starting at 0.
CountOf(count, key) == IF key \in DOMAIN count THEN count[key] ELSE 0

\* _new_version as it would be if it read the counter after advancing it.
_new_version_late(count, key) ==
    [value |-> CountOf(count, key) + 1,
     count |-> Put(count, key, CountOf(count, key) + 1)]

_new_version(count, key) ==
    [value |-> CountOf(count, key),
     count |-> Put(count, key, CountOf(count, key) + 1)]

\* GlobalBlock.__init__
GlobalBlock ==
    [cls |-> "GlobalBlock", data |-> << >>, text |-> << >>,
     consts |-> EmptyMap, functions |-> << >>, count |-> EmptyMap]

\* "".join(ch if ch.isalnum() else "_" for ch in typename), on the type
\* names of the model.
Sanitize(typename) ==
    CASE typename = "char[2]" -> "char_2_"
      [] OTHER -> typename

\* new_literal as it would be without the lookup in self.consts.
new_literal_uncached(g, typename, value) ==
    LET name == Sanitize(typename)
        v == _new_version(g.count, name)
        varname == TextVariable(name, v.value)
    IN  [glob |-> [g EXCEPT
                     !.count = v.count,
                     !.text = Append(@, GlobalInstr(typename, varname, value)),
                     !.consts = Put(@, <<typename, value>>, varname)],
         ret |-> varname]

\* new_literal as it would be with one version counter per type name
\* instead of one per sanitized name.
new_literal_counts_by_type(g, typename, value) ==
    IF <<typename, value>> \in DOMAIN g.consts
    THEN [glob |-> g, ret |-> g.consts[<<typename, value>>]]
    ELSE LET v == _new_version(g.count, typename)
             varname == TextVariable(Sanitize(typename), v.value)
         IN  [glob |-> [g EXCEPT
                          !.count = v.count,
                          !.text = Append(@, GlobalInstr(typename, varname,
                                                         value)),
                          !.consts = Put(@, <<typename, value>>, varname)],
              ret |-> varname]

\* GlobalBlock.new_literal: the block afterwards and the symbol returned.
new_literal(g, typename, value) ==
    IF <<typename, value>> \in DOMAIN g.consts
    THEN [glob |-> g, ret |-> g.consts[<<typename, value>>]]
    ELSE LET name == Sanitize(typename)
             v == _new_version(g.count, name)
             varname == TextVariable(name, v.value)
         IN  [glob |-> [g EXCEPT
                          !.count = v.count,
                          !.text = Append(@, GlobalInstr(typename, varname,
                                                         value)),
                          !.consts = Put(@, <<typename, value>>, varname)],
              ret |-> varname]

\* GlobalBlock.new_global
new_global(g, name, ty, init) ==
    [glob |-> [g EXCEPT !.data = Append(@, GlobalInstr(ty, Global(name),
                                                      init))],
     ret |-> Global(name)]

\* ----------------------------------------------------- code generator ---

\* FunctionBlock.__init__(self, parent, rettype, funcname, param_types=()):
\* the object a call with these positional arguments constructs, or the
\* TypeError of a call that leaves a required parameter without argument.
FunctionBlock(args) ==
    IF Len(args) < 3
    THEN [cls |-> "FunctionBlock", exc |-> "TypeError", define |-> None,
          blocks |-> <<>>, count |-> EmptyMap, attrs |-> {}]
    ELSE LET param_types == IF Len(args) >= 4 THEN args[4] ELSE << >>
             n == Len(param_types)
         IN  \* one new_temp() per parameter type, in order
             [cls |-> "FunctionBlock", exc |-> "",
              define |-> DefineInstr(args[2], args[3],
                                     [i \in 1 .. n |-> Temp(i - 1)]),
              blocks |-> <<>>,
              count |-> IF n = 0 THEN EmptyMap ELSE Put(EmptyMap, "temp", n),
              attrs |-> {"parent", "define", "blocks"}]

\* GlobalBlock.new_function: the block is built and appended to functions.
new_function(g, uctype) ==
    LET block == FunctionBlock(<<"glob", uctype.rettype,
                                 Global(uctype.funcname),
                                 uctype.param_types>>)
    IN  [glob |-> [g EXCEPT !.functions = Append(@, block)], ret |-> block]

\* FunctionBlock.new_temp (BasicBlock.new_temp hands over to it).
new_temp(f) ==
    LET v == _new_version(f.count, "temp")
    IN  [block |-> [f EXCEPT !.count = v.count], ret |-> Temp(v.value)]

\* f".L{version}"
DotL(version) ==
    CASE version = 0 -> ".L0" [] version = 1 -> ".L1" [] version = 2 -> ".L2"
      [] version = 3 -> ".L3" [] version = 4 -> ".L4" [] version = 5 -> ".L5"
      [] version = 6 -> ".L6" [] version = 7 -> ".L7" [] OTHER -> ".L8"

\* BasicBlock.__init__
BasicBlock(name) ==
    [cls |-> "BasicBlock", label_def |-> LabelInstr(name), instr |-> << >>]

\* new_block as it would be if labels and temporaries shared one counter.
new_block_one_counter(f, name) ==
    LET v == _new_version(f.count, "temp")
        block == BasicBlock(IF name = "" THEN DotL(v.value) ELSE name)
    IN  [block |-> [f EXCEPT
                      !.count = IF name = "" THEN v.count ELSE @,
                      !.blocks = Append(@, block)],
         ret |-> block]

\* FunctionBlock.new_block; name "" stands for None.
new_block(f, name) ==
    LET v == _new_version(f.count, "label")
        block == BasicBlock(IF name = "" THEN DotL(v.value) ELSE name)
    IN  [block |-> [f EXCEPT
                      !.count = IF name = "" THEN v.count ELSE @,
                      !.blocks = Append(@, block)],
         ret |-> block]

\* BasicBlock.append
append(b, instr) == [b EXCEPT !.instr = Append(@, instr)]

\* instructions as it would be with the data section ahead of the text.
instructions_data_first(block) ==
    CASE block.cls = "GlobalBlock" -> block.data \o block.text
      [] block.cls = "FunctionBlock" -> << block.define >>
      [] OTHER -> << block.label_def >> \o block.instr

\* Block.instructions and Block.subblocks of the three classes.
instructions(block) ==
    CASE block.cls = "GlobalBlock" -> block.text \o block.data
      [] block.cls = "FunctionBlock" -> << block.define >>
      [] OTHER -> << block.label_def >> \o block.instr

subblocks(block) ==
    CASE block.cls = "GlobalBlock" -> block.functions
      [] block.cls = "FunctionBlock" -> block.blocks
      [] OTHER -> << >>

\* BlockVisitor.visit with EmitBlocks.generic_visit: the block's own
\* instructions extend the total, then every subblock is visited in turn.
RECURSIVE visit(_, _)
RECURSIVE visit_each(_, _)
visit(block, total) ==
    visit_each(subblocks(block), total \o instructions(block))

visit_each(blocks, total) ==
    IF blocks = << >> THEN total
    ELSE visit_each(Tail(blocks), visit(Head(blocks), total))

\* EmitBlocks as it would be if the visit consumed the sections it emits.
EmitBlocksDraining(g) ==
    [total |-> visit(g, << >>), glob |-> [g EXCEPT !.text = << >>]]

\* EmitBlocks().visit(self.glob): the flat list, and the tree afterwards.
EmitBlocks(g) == [total |-> visit(g, << >>), glob |-> g]

\* visit_Program visits the global declarations in order; visit_FuncDef
\* constructs FunctionBlock(self.glob, decl.uc_type) and reads its .entry.
visit_FuncDef ==
    /\ status = "compiling"
    /\ gdecl \in 1 .. Len(ast)
    /\ ast[gdecl].kind = "FuncDef"
    /\ LET block == FunctionBlock(<<"glob", ast[gdecl].uc_type>>) IN
       IF block.exc # "" THEN Crash(block.exc)
       ELSE IF "entry" \notin block.attrs THEN Crash("AttributeError")
       ELSE Continue
    /\ gdecl' = gdecl
    /\ ev' = Event("visit_FuncDef")
    /\ UNCHANGED <<ast, glob, hist, code, M, vars_frame, vars_stacks,
                   globals, labels, lastpc, start, vars_io, offset, params,
                   pc, vars_hist>>

\* -------------------------------------------------------- expressions ---

\* The nodes the expression visitors are given.
ID(name, uc_type) ==
    [kind |-> "ID", name |-> name, value |-> 0, uc_type |-> uc_type,
     is_global |-> FALSE]

IntConstant(value) ==
    [kind |-> "IntConstant", name |-> "", value |-> value, uc_type |-> "int",
     is_global |-> FALSE]

ArrayRef(array, index, uc_type) ==
    [kind |-> "ArrayRef", array |-> array, index |-> index,
     uc_type |-> uc_type]

FuncCall(callable, arguments, uc_type) ==
    [kind |-> "FuncCall", callable |-> callable, params |-> arguments,
     uc_type |-> uc_type]

Assignment(left, right, uc_type) ==
    [kind |-> "Assignment", left |-> left, right |-> right,
     uc_type |-> uc_type]

BinaryOp(op, left, right, uc_type) ==
    [kind |-> "BinaryOp", op |-> op, left |-> left, right |-> right,
     uc_type |-> uc_type]

\* isinstance(uc_type, PrimaryType)
IsPrimaryType(ty) == ty \in {"int", "char", "float", "bool"}

ElemInstr(ty, source, index, target) == Instr("elem", ty, source, index, target)

GetInstr(ty, source, target) == Instr("get", ty, source, None, target)

\* self.current is the first block of the first function of the tree.
\* self.current.new_temp() and self.current.append(instr):
\* One statement after another: the value v is computed once and the rest,
\* F, goes on with it.
Bind(v, F(_)) == CHOOSE y \in {F(x) : x \in {v}} : TRUE

current_new_temp(g) ==
    Bind(new_temp(g.functions[1]), LAMBDA r :
      [glob |-> [g EXCEPT !.functions[1] = r.block], ret |-> r.ret])

current_append(g, instr) ==
    [g EXCEPT !.functions[1].blocks[1] = append(@, instr)]

\* CodeGenerator._new_constant
_new_constant(g, uctype, value) ==
    Bind(current_new_temp(g), LAMBDA target :
      [glob |-> current_append(target.glob,
                               LiteralInstr(uctype, value, target.ret)),
       ret |-> target.ret])

\* CodeGenerator.visit_Constant (visit_IntConstant hands over to it).
visit_Constant(g, node) == _new_constant(g, node.uc_type, IntV(node.value))

\* CodeGenerator._varname and visit_ID
_varname(ident) ==
    IF ident.is_global THEN Global(ident.name) ELSE Named(ident.name)

visit_ID(g, node, ref) ==
    Bind(current_new_temp(g), LAMBDA register :
      LET instr == IF ~ref
                   THEN LoadInstr(node.uc_type, _varname(node), register.ret)
                   ELSE GetInstr(node.uc_type, _varname(node), register.ret)
      IN  [glob |-> current_append(register.glob, instr),
           ret |-> register.ret])

\* NodeVisitor.visit: the method named after the node's class.
visit_node(g, node) ==
    IF node.kind = "ID" THEN visit_ID(g, node, FALSE)
    ELSE visit_Constant(g, node)

\* The loop of visit_FuncCall over node.parameters(): each argument is
\* visited and its param appended; instr is the local variable of that
\* name, << >> while nothing was assigned to it.
RECURSIVE VisitParameters(_, _, _)
VisitParameters(g, rest, instr) ==
    IF rest = << >> THEN [glob |-> g, instr |-> instr]
    ELSE Bind(visit_node(g, Head(rest)), LAMBDA varname :
           LET made == ParamInstr(Head(rest).uc_type, varname.ret)
           IN  VisitParameters(current_append(varname.glob, made),
                               Tail(rest), << made >>))

\* CodeGenerator.visit_FuncCall: the CallInstr is assigned to "isntr" and
\* what is appended is "instr", the last param, unbound without arguments.
visit_FuncCall(g, node) ==
    Bind(visit_node(g, node.callable), LAMBDA source :
    Bind(VisitParameters(source.glob, node.params, << >>), LAMBDA loop :
    Bind(current_new_temp(loop.glob), LAMBDA target :
      LET isntr == CallInstr(node.uc_type, source.ret, target.ret)
      IN  IF loop.instr = << >>
          THEN [glob |-> target.glob, ret |-> None,
                exc |-> "UnboundLocalError"]
          ELSE [glob |-> current_append(target.glob, loop.instr[1]),
                ret |-> target.ret, exc |-> ""])))

\* visit_ArrayRef as it would be if the index were never scaled.
visit_ArrayRef_unscaled(g, node, ref) ==
    Bind(visit_node(g, node.array), LAMBDA source :
    Bind(visit_node(source.glob, node.index), LAMBDA index :
    Bind(current_new_temp(index.glob), LAMBDA last :
      [glob |-> current_append(last.glob,
                  IF ref \/ ~IsPrimaryType(node.uc_type)
                  THEN BinaryOpInstruction("add", node.uc_type, source.ret,
                                           index.ret, last.ret)
                  ELSE ElemInstr(node.uc_type, source.ret, index.ret,
                                 last.ret)),
       ret |-> last.ret])))

\* CodeGenerator.visit_ArrayRef
visit_ArrayRef(g, node, ref) ==
    Bind(visit_node(g, node.array), LAMBDA source :
    Bind(visit_node(source.glob, node.index), LAMBDA index :
    Bind(current_new_temp(index.glob), LAMBDA slot :
    Bind(_new_constant(slot.glob, "int", IntV(SizeOf(node.uc_type))),
         LAMBDA size :
    Bind(current_append(size.glob,
           BinaryOpInstruction("mul", "int", size.ret, index.ret, slot.ret)),
         LAMBDA mul :
      LET scaled == SizeOf(node.uc_type) # 1
          off == IF scaled THEN slot.ret ELSE index.ret
      IN
    Bind(current_new_temp(IF scaled THEN mul ELSE index.glob), LAMBDA last :
      [glob |-> current_append(last.glob,
                  IF ref \/ ~IsPrimaryType(node.uc_type)
                  THEN BinaryOpInstruction("add", node.uc_type, source.ret,
                                           off, last.ret)
                  ELSE ElemInstr(node.uc_type, source.ret, off, last.ret)),
       ret |-> last.ret]))))))

\* CodeGenerator.visit_Assignment: node.left is visited for the value;
\* node.right names the place, a variable or an address to be computed.
\* target is the place as the method holds it, kept for inspection.
visit_Assignment(g, node) ==
    Bind(visit_node(g, node.left), LAMBDA value :
      IF node.right.kind = "ID"
      THEN [glob |-> current_append(value.glob,
                       StoreInstr(node.uc_type, value.ret,
                                  _varname(node.right))),
            ret |-> value.ret, target |-> _varname(node.right)]
      ELSE
    Bind(visit_ArrayRef(value.glob, node.right, TRUE), LAMBDA target :
    Bind(_new_constant(target.glob, "int", IntV(0)), LAMBDA zero :
      [glob |-> current_append(zero.glob,
                  ElemInstr(node.uc_type, value.ret, zero.ret, target.ret)),
       ret |-> value.ret, target |-> target.ret])))

\* binary_op: the opcode of the instruction class of each operator.
binary_op ==
    ("+" :> "add") @@ ("-" :> "sub") @@ ("*" :> "mul") @@ ("/" :> "div")
      @@ ("%" :> "mod") @@ ("<" :> "lt") @@ ("<=" :> "le") @@ (">" :> "gt")
      @@ (">=" :> "ge") @@ ("==" :> "eq") @@ ("!=" :> "ne")
      @@ ("&&" :> "and") @@ ("||" :> "or")

\* visit_BinaryOp as it would be if the right operand were visited first.
visit_BinaryOp_right_first(g, node) ==
    Bind(visit_node(g, node.right), LAMBDA right :
    Bind(visit_node(right.glob, node.left), LAMBDA left :
    Bind(current_new_temp(left.glob), LAMBDA target :
      [glob |-> current_append(target.glob,
                  BinaryOpInstruction(binary_op[node.op], node.uc_type,
                                      left.ret, right.ret, target.ret)),
       ret |-> target.ret])))

\* CodeGenerator.visit_BinaryOp (visit_RelationOp hands over to it).
visit_BinaryOp(g, node) ==
    Bind(visit_node(g, node.left), LAMBDA left :
    Bind(visit_node(left.glob, node.right), LAMBDA right :
    Bind(current_new_temp(right.glob), LAMBDA target :
      [glob |-> current_append(target.glob,
                  BinaryOpInstruction(binary_op[node.op], node.uc_type,
                                      left.ret, right.ret, target.ret)),
       ret |-> target.ret])))

\* ----------------------------------------------------------- programs ---

\* Most formal parameters and most queued arguments of the driver call.
MaxArgs == 2

\* f(n) = 10 for n = 0 and f(n - 1) + n otherwise, called with depth.
ProgRec(depth) ==
    << DefineInstr("int", Global("f"), <<Temp(0)>>),
       LabelInstr("entry"),
       AllocInstr("int", Named("n")),
       StoreInstr("int", Temp(0), Named("n")),
       LiteralInstr("int", IntV(0), Temp(1)),
       BinaryOpInstruction("eq", "int", Temp(0), Temp(1), Temp(2)),
       CBranchInstr(Temp(2), Label("base"), Label("rec")),
       LabelInstr("base"),
       LiteralInstr("int", IntV(10), Temp(3)),
       ReturnInstr("int", Temp(3)),
       LabelInstr("rec"),
       LiteralInstr("int", IntV(1), Temp(4)),
       BinaryOpInstruction("sub", "int", Temp(0), Temp(4), Temp(5)),
       ParamInstr("int", Temp(5)),
       CallInstr("int", Global("f"), Temp(6)),
       LoadInstr("int", Named("n"), Temp(7)),
       BinaryOpInstruction("add", "int", Temp(6), Temp(7), Temp(8)),
       ReturnInstr("int", Temp(8)),
       DefineInstr("int", Global(".start"), <<>>),
       LabelInstr("entry"),
       AllocInstr("int", Named("r")),
       LiteralInstr("int", IntV(depth), Temp(0)),
       ParamInstr("int", Temp(0)),
       CallInstr("int", Global("f"), Temp(1)),
       StoreInstr("int", Temp(1), Named("r")),
       PrintInstr("int", Temp(1)),
       JumpInstr(Label("end")),
       LabelInstr("end") >>

\* w() writes a local; r() returns a local it never wrote.  The entry
\* calls w first (without a target) when writer is TRUE.
ProgFrames(writer) ==
    << DefineInstr("void", Global("w"), <<>>),
       LabelInstr("entry"),
       AllocInstr("int", Named("a")),
       LiteralInstr("int", IntV(7), Temp(0)),
       StoreInstr("int", Temp(0), Named("a")),
       ReturnInstr("void", None),
       DefineInstr("int", Global("r"), <<>>),
       LabelInstr("entry"),
       AllocInstr("int", Named("b")),
       LoadInstr("int", Named("b"), Temp(0)),
       ReturnInstr("int", Temp(0)),
       DefineInstr("int", Global(".start"), <<>>),
       LabelInstr("entry"),
       LiteralInstr("int", IntV(3), Temp(0)) >>
    \o (IF writer THEN << CallInstr("void", Global("w"), None) >> ELSE << >>)
    \o << CallInstr("int", Global("r"), Temp(1)),
          PrintInstr("int", Temp(1)),
          PrintInstr("int", Temp(0)) >>

\* One operator applied to registers a and b, where register 0 holds what
\* a never-written local holds and register 1 the literal k.
ProgOp(op, ty, a, b, k) ==
    << DefineInstr("int", Global(".start"), <<>>),
       LabelInstr("entry"),
       AllocInstr(ty, Named("u")),
       LoadInstr(ty, Named("u"), Temp(0)),
       LiteralInstr(ty, k, Temp(1)),
       BinaryOpInstruction(op, ty, Temp(a), Temp(b), Temp(2)),
       PrintInstr(ty, Temp(2)) >>

\* The quotient of two literals, printed.
ProgDiv(ty, a, b) ==
    << DefineInstr("int", Global(".start"), <<>>),
       LabelInstr("entry"),
       LiteralInstr("int", IntV(a), Temp(0)),
       LiteralInstr("int", IntV(b), Temp(1)),
       BinaryOpInstruction("div", ty, Temp(0), Temp(1), Temp(2)),
       PrintInstr(ty, Temp(2)) >>

\* A local holding 5 is read into, then printed.
ProgRead(ty) ==
    << DefineInstr("int", Global(".start"), <<>>),
       LabelInstr("entry"),
       AllocInstr(ty, Named("x")),
       LiteralInstr("int", IntV(5), Temp(0)),
       StoreInstr(ty, Temp(0), Named("x")),
       ReadInstr(ty, Named("x")),
       LoadInstr(ty, Named("x"), Temp(1)),
       PrintInstr(ty, Temp(1)) >>

\* g has n formals and returns the first (9 when it has none); the entry
\* queues k arguments 11, 12, ... and calls g.
ProgArgs(k, n) ==
    << DefineInstr("int", Global("g"), [i \in 1 .. n |-> Temp(i - 1)]),
       LabelInstr("entry") >>
    \o (IF n = 0 THEN << LiteralInstr("int", IntV(9), Temp(0)) >> ELSE << >>)
    \o << ReturnInstr("int", Temp(0)),
          DefineInstr("int", Global(".start"), <<>>),
          LabelInstr("entry") >>
    \o [i \in 1 .. k |-> LiteralInstr("int", IntV(10 + i), Temp(i - 1))]
    \o [i \in 1 .. k |-> ParamInstr("int", Temp(i - 1))]
    \o << CallInstr("int", Global("g"), Temp(k)),
          PrintInstr("int", Temp(k)) >>

\* The list the generator is meant to emit for
\*   int add(int a, int b) { return a + b; }  int main() { print(add(2, 3)); }
\* with the entry function named entry.
ProgAdd(entry) ==
    << DefineInstr("int", Global("add"), <<Temp(0), Temp(1)>>),
       LabelInstr("entry"),
       AllocInstr("int", Named("a")),
       StoreInstr("int", Temp(0), Named("a")),
       AllocInstr("int", Named("b")),
       StoreInstr("int", Temp(1), Named("b")),
       LoadInstr("int", Named("a"), Temp(2)),
       LoadInstr("int", Named("b"), Temp(3)),
       BinaryOpInstruction("add", "int", Temp(2), Temp(3), Temp(4)),
       ReturnInstr("int", Temp(4)),
       DefineInstr("int", Global(entry), <<>>),
       LabelInstr("entry"),
       LiteralInstr("int", IntV(2), Temp(0)),
       ParamInstr("int", Temp(0)),
       LiteralInstr("int", IntV(3), Temp(1)),
       ParamInstr("int", Temp(1)),
       CallInstr("int", Global("add"), Temp(2)),
       PrintInstr("int", Temp(2)) >>

\* An instruction without a handler (a global declaration, a copy) between
\* a literal and the print of its register.
ProgSkip(op) ==
    << DefineInstr("void", Global(".start"), <<>>),
       LabelInstr("entry"),
       LiteralInstr("int", IntV(1), Temp(0)),
       IF op = "global" THEN GlobalInstr("int", Global("x"), << >>)
       ELSE CopyInstr("int", Temp(0), Temp(1)),
       LabelInstr("next"),
       PrintInstr("int", Temp(0)) >>

\* An alloc on a temporary between two allocs on named variables.
ProgAllocTemp(ty) ==
    << DefineInstr("void", Global(".start"), <<>>),
       LabelInstr("entry"),
       AllocInstr("int", Named("a")),
       AllocInstr(ty, Temp(0)),
       AllocInstr("int", Named("b")),
       PrintInstr("int", Temp(0)) >>

\* Two functions whose blocks carry the same names: each jumps to its own
\* block "next".  The callee is placed before or after the entry function.
ProgLabels(first) ==
    LET g == << DefineInstr("int", Global("g"), <<>>),
                LabelInstr("entry"),
                JumpInstr(Label("next")),
                LabelInstr("skipped"),
                LiteralInstr("int", IntV(0), Temp(0)),
                LabelInstr("next"),
                LiteralInstr("int", IntV(1), Temp(0)),
                ReturnInstr("int", Temp(0)) >>
        entry == << DefineInstr("void", Global(".start"), <<>>),
                    LabelInstr("entry"),
                    CallInstr("int", Global("g"), Temp(0)),
                    JumpInstr(Label("next")),
                    LabelInstr("skipped"),
                    LiteralInstr("int", IntV(2), Temp(0)),
                    LabelInstr("next"),
                    PrintInstr("int", Temp(0)),
                    JumpInstr(Label("end")),
                    LabelInstr("end") >>
    IN  IF first THEN g \o entry ELSE entry \o g

\* The declarations of that source program, as the parser hands them on.
AddProgram ==
    << [kind |-> "FuncDef", name |-> "add", uc_type |-> "int(int,int)"],
       [kind |-> "FuncDef", name |-> "main", uc_type |-> "int()"] >>

Literals == {IntV(-7), IntV(0), IntV(2), FloatV(5, 2)}

\* Input lines: every string over the alphabet up to the longest length.
RECURSIVE LinesOfLen(_)
LinesOfLen(n) ==
    IF n = 0 THEN {<< >>}
    ELSE {Append(l, ch) : l \in LinesOfLen(n - 1), ch \in Alphabet}

Lines == UNION {LinesOfLen(n) : n \in 0 .. MaxLineLen}

\* A return in the entry function, which no call entered, with an operand
\* or with none, and a print after it.
ProgUnmatched(given) ==
    << DefineInstr("int", Global(".start"), <<>>),
       LabelInstr("entry"),
       AllocInstr("int", Named("a")),
       LiteralInstr("int", IntV(7), Temp(1)),
       StoreInstr("int", Temp(1), Named("a")),
       ReturnInstr("int", IF given THEN Temp(1) ELSE None),
       PrintInstr("int", Temp(1)) >>

\* Three globals (a scalar with an initializer, an array of two with one,
\* a scalar with none) and two functions, the globals ahead of the
\* functions or between and after them; the entry prints the first global.
ProgGlobals(mixed) ==
    LET x == << GlobalInstr("int", Global("x"), << IntV(5) >>) >>
        y == << GlobalInstr("int[2]", Global("y"), << IntV(1), IntV(2) >>) >>
        z == << GlobalInstr("int", Global("z"), << >>) >>
        g == << DefineInstr("int", Global("g"), <<>>),
                LabelInstr("entry"),
                LiteralInstr("int", IntV(1), Temp(0)),
                ReturnInstr("int", Temp(0)) >>
        entry == << DefineInstr("void", Global(".start"), <<>>),
                    LabelInstr("entry"),
                    LoadInstr("int", Global("x"), Temp(0)),
                    PrintInstr("int", Temp(0)) >>
    IN  IF mixed THEN x \o g \o y \o entry \o z
        ELSE x \o y \o z \o g \o entry

\* The list for f(1, g(2)) when g has a formal and for f(1, g()) when it
\* has none: the param of 1 is queued, g is called and returns 2, the
\* param of the result is queued, f is called and prints its two formals.
ProgNested(n) ==
    << DefineInstr("int", Global("g"), [i \in 1 .. n |-> Temp(i - 1)]),
       LabelInstr("entry") >>
    \o (IF n = 0 THEN << LiteralInstr("int", IntV(2), Temp(0)) >> ELSE << >>)
    \o << ReturnInstr("int", Temp(0)),
          DefineInstr("int", Global("f"), << Temp(0), Temp(1) >>),
          LabelInstr("entry"),
          PrintInstr("int", Temp(0)),
          PrintInstr("int", Temp(1)),
          ReturnInstr("int", Temp(0)),
          DefineInstr("int", Global(".start"), <<>>),
          LabelInstr("entry"),
          LiteralInstr("int", IntV(1), Temp(0)),
          ParamInstr("int", Temp(0)) >>
    \o (IF n = 1 THEN << LiteralInstr("int", IntV(2), Temp(1)),
                         ParamInstr("int", Temp(1)) >>
        ELSE << >>)
    \o << CallInstr("int", Global("g"), Temp(2)),
          ParamInstr("int", Temp(2)),
          CallInstr("int", Global("f"), Temp(3)) >>

\* A callee with n formals that returns with no operand, having written a
\* register before or none; the entry calls it with n values queued and
\* prints its own register 0 afterwards.
ProgBare(wrote, n) ==
    << DefineInstr("void", Global("v"), [i \in 1 .. n |-> Temp(i - 1)]),
       LabelInstr("entry") >>
    \o (IF wrote THEN << LiteralInstr("int", IntV(7), Temp(0)) >> ELSE << >>)
    \o << ReturnInstr("void", None),
          DefineInstr("int", Global(".start"), <<>>),
          LabelInstr("entry"),
          LiteralInstr("int", IntV(3), Temp(0)) >>
    \o [i \in 1 .. n |-> ParamInstr("int", Temp(0))]
    \o << CallInstr("void", Global("v"), Temp(1)),
          PrintInstr("int", Temp(0)) >>

\* Two reads of int type into the same local, one after the other.
ProgReadTwice ==
    << DefineInstr("int", Global(".start"), <<>>),
       LabelInstr("entry"),
       AllocInstr("int", Named("x")),
       LiteralInstr("int", IntV(5), Temp(0)),
       StoreInstr("int", Temp(0), Named("x")),
       ReadInstr("int", Named("x")),
       ReadInstr("int", Named("x")),
       LoadInstr("int", Named("x"), Temp(1)),
       PrintInstr("int", Temp(1)) >>

\* Standard input: nothing, one line, or one line and a second one.
Inputs ==
    {<< >>} \cup {<<l>> : l \in Lines}
            \cup {<<l, m>> : l \in Lines, m \in {<<"2">>, <<"2", " ", "1">>}}

\* What one run is given: a flat list and an input, or declarations to
\* generate code for.
Job(c, i, a) == [code |-> c, stdin |-> i, ast |-> a]

Jobs ==
    {Job(ProgRec(d), << >>, << >>) : d \in 0 .. MaxDepth}
    \cup {Job(ProgFrames(w), << >>, << >>) : w \in BOOLEAN}
    \cup {Job(ProgBare(w, n), << >>, << >>) : w \in BOOLEAN, n \in 0 .. 1}
    \cup {Job(ProgOp(op, ty, a, b, k), << >>, << >>) :
            op \in ArithOps \cup RelOps, ty \in {"int", "float"},
            a \in 0 .. 1, b \in 0 .. 1, k \in Literals}
    \cup {Job(ProgDiv(ty, a, b), << >>, << >>) :
            ty \in {"int", "char"}, a \in {-7, 7}, b \in {-2, 2}}
    \cup {Job(ProgRead(ty), i, << >>) :
            ty \in {"int", "float", "char", "string"}, i \in Inputs}
    \cup {Job(ProgReadTwice, <<l>>, << >>) : l \in Lines}
    \cup {Job(ProgArgs(k, n), << >>, << >>) :
            k \in 0 .. MaxArgs, n \in 0 .. MaxArgs}
    \cup {Job(ProgAdd(e), << >>, << >>) : e \in {".start", "main"}}
    \cup {Job(<< >>, << >>, AddProgram)}
    \cup {Job(<< >>, << >>, << >>)}
    \cup {Job(ProgSkip(op), << >>, << >>) : op \in {"global", "copy"}}
    \cup {Job(ProgLabels(first), << >>, << >>) : first \in BOOLEAN}
    \cup {Job(ProgAllocTemp(ty), << >>, << >>) : ty \in {"int", "int[2]"}}
    \cup {Job(ProgUnmatched(given), << >>, << >>) : given \in BOOLEAN}
    \cup {Job(ProgGlobals(mixed), << >>, << >>) : mixed \in BOOLEAN}
    \cup {Job(ProgNested(n), << >>, << >>) : n \in 0 .. 1}

\* ------------------------------------------------- building the tree ---

\* Most calls made on one block tree.
MaxOps == 4

\* The (typename, value) pairs new_literal is called with: two values of
\* one type, and two type names that differ only in characters that are
\* not alphanumeric.
LiteralPairs ==
    { <<"int", <<CharV("1")>>>>, <<"int", <<CharV("2")>>>>,
      <<"char[2]", <<CharV("1")>>>>, <<"char_2_", <<CharV("1")>>>> }

\* The function types new_function is called with: f with n parameters.
FunctionTypes ==
    { [funcname |-> "f", rettype |-> "int",
       param_types |-> [i \in 1 .. n |-> "int"]] : n \in 0 .. MaxArgs }

\* The names new_block is called with, "" for None.
BlockNames == {"", "entry", ".L0"}

\* The instructions append is called with.
Appended == { LiteralInstr("int", IntV(1), Temp(0)), ReturnInstr("int", None) }

\* The history record of a call on the tree: the method, the function it
\* was made on, its arguments and what it returned; for a flattening the
\* tree and the list as they were, and whether a flattening came before.
BEvent(op) ==
    [op |-> op, fn |-> 0, via |-> "", args |-> << >>, ret |-> None,
     before |-> GlobalBlock, first |-> << >>, again |-> FALSE, exc |-> ""]

Building == status = "building" /\ hist.n < MaxOps

do_new_literal ==
    /\ Building
    /\ \E pair \in LiteralPairs :
         LET r == new_literal(glob, pair[1], pair[2]) IN
         /\ glob' = r.glob
         /\ hist' = [hist EXCEPT
                       !.n = @ + 1,
                       !.literals = Append(@, [args |-> pair, ret |-> r.ret])]
         /\ ev' = [BEvent("new_literal") EXCEPT !.args = pair, !.ret = r.ret]
    /\ UNCHANGED <<code, status, vars_machine>>

do_new_global ==
    /\ Building
    /\ LET r == new_global(glob, "x", "int", << >>) IN
       /\ glob' = r.glob
       /\ ev' = [BEvent("new_global") EXCEPT !.ret = r.ret]
    /\ hist' = [hist EXCEPT !.n = @ + 1]
    /\ UNCHANGED <<code, status, vars_machine>>

do_new_function ==
    /\ Building
    /\ \E uctype \in FunctionTypes :
         LET r == new_function(glob, uctype) IN
         /\ glob' = r.glob
         /\ ev' = [BEvent("new_function") EXCEPT
                     !.fn = Len(r.glob.functions),
                     !.args = uctype.param_types,
                     !.ret = r.ret]
         /\ hist' = [hist EXCEPT
                       !.n = @ + 1,
                       !.formals = Append(@, Len(uctype.param_types)),
                       !.temps = Append(@, << >>),
                       !.unnamed = Append(@, << >>)]
    /\ UNCHANGED <<code, status, vars_machine>>

\* new_temp called on a function, or on one of its blocks.
do_new_temp ==
    /\ Building
    /\ \E fn \in 1 .. Len(glob.functions) :
       \E via \in {"FunctionBlock"} \cup
                  (IF glob.functions[fn].blocks # << >>
                   THEN {"BasicBlock"} ELSE {}) :
         LET r == new_temp(glob.functions[fn]) IN
         /\ glob' = [glob EXCEPT !.functions[fn] = r.block]
         /\ hist' = [hist EXCEPT !.n = @ + 1,
                                 !.temps[fn] = Append(@, r.ret)]
         /\ ev' = [BEvent("new_temp") EXCEPT
                     !.fn = fn, !.via = via, !.ret = r.ret]
    /\ UNCHANGED <<code, status, vars_machine>>

do_new_block ==
    /\ Building
    /\ \E fn \in 1 .. Len(glob.functions) :
       \E name \in BlockNames :
         LET r == new_block(glob.functions[fn], name) IN
         /\ glob' = [glob EXCEPT !.functions[fn] = r.block]
         /\ ev' = [BEvent("new_block") EXCEPT
                     !.fn = fn, !.args = <<name>>, !.ret = r.ret]
         /\ hist' = [hist EXCEPT
                       !.n = @ + 1,
                       !.unnamed[fn] = IF name = ""
                                       THEN Append(@, r.ret.label_def.x.s)
                                       ELSE @]
    /\ UNCHANGED <<code, status, vars_machine>>

do_append ==
    /\ Building
    /\ \E fn \in 1 .. Len(glob.functions) :
       \E b \in 1 .. Len(glob.functions[fn].blocks) :
       \E instr \in Appended :
         /\ glob' = [glob EXCEPT !.functions[fn].blocks[b] = append(@, instr)]
         /\ ev' = [BEvent("append") EXCEPT !.fn = fn, !.args = <<b, instr>>]
    /\ hist' = [hist EXCEPT !.n = @ + 1]
    /\ UNCHANGED <<code, status, vars_machine>>

\* --------------------------------------------- visiting expressions ---

\* Most expressions visited in one block.
MaxVisits == 2

\* Largest index constant of an array reference.
MaxIndex == 2

\* The array references visited: an array variable indexed by a constant,
\* with elements of one storage unit or of two.
ArrayRefs ==
    { ArrayRef(ID("a", "int"), IntConstant(i), ty) :
        i \in 0 .. MaxIndex, ty \in {"int", "char", "int[2]"} }

\* A function is made and the block visited is its first block, as
\* visit_FuncDef means to arrange before it visits the body.
set_current ==
    /\ status = "building"
    /\ glob.functions = << >>
    /\ \E uctype \in FunctionTypes :
         LET f == new_function(glob, uctype)
             b == new_block(f.ret, "entry")
         IN  /\ glob' = [f.glob EXCEPT !.functions[1] = b.block]
             /\ hist' = [hist EXCEPT
                           !.formals = Append(@, Len(uctype.param_types)),
                           !.temps = Append(@, << >>),
                           !.unnamed = Append(@, << >>)]
    /\ status' = "visiting"
    /\ ev' = BEvent("set_current")
    /\ UNCHANGED <<code, vars_machine>>

do_visit_ArrayRef ==
    /\ status = "visiting"
    /\ hist.n < MaxVisits
    /\ \E node \in ArrayRefs, ref \in BOOLEAN :
         \E r \in {visit_ArrayRef(glob, node, ref)} :
         /\ glob' = r.glob
         /\ ev' = [BEvent("visit_ArrayRef") EXCEPT
                     !.args = <<node, ref>>, !.ret = r.ret, !.before = glob]
    /\ hist' = [hist EXCEPT !.n = @ + 1]
    /\ UNCHANGED <<code, status, vars_machine>>

\* The calls visited: f with n constant arguments.
FuncCalls ==
    { FuncCall([ID("f", "int") EXCEPT !.is_global = TRUE],
               [i \in 1 .. n |-> IntConstant(i)], "int") : n \in 0 .. MaxArgs }

\* The assignments visited: a constant assigned to a variable or to an
\* element of an array.
Assignments ==
    { Assignment(IntConstant(v), right, "int") :
        v \in 1 .. MaxIndex,
        right \in {ID("x", "int")}
                  \cup {node \in ArrayRefs : node.uc_type = "int"} }

do_visit_Assignment ==
    /\ status = "visiting"
    /\ hist.n < MaxVisits
    /\ \E node \in Assignments :
         \E r \in {visit_Assignment(glob, node)} :
         /\ glob' = r.glob
         /\ ev' = [BEvent("visit_Assignment") EXCEPT
                     !.args = <<node, r.target>>, !.ret = r.ret,
                     !.before = glob]
    /\ hist' = [hist EXCEPT !.n = @ + 1]
    /\ UNCHANGED <<code, status, vars_machine>>

\* An exception leaves the visitor: the visit of the program is over.
do_visit_FuncCall ==
    /\ status = "visiting"
    /\ hist.n < MaxVisits
    /\ \E node \in FuncCalls :
         \E r \in {visit_FuncCall(glob, node)} :
         /\ glob' = r.glob
         /\ status' = IF r.exc # "" THEN "crashed" ELSE status
         /\ ev' = [BEvent("visit_FuncCall") EXCEPT
                     !.args = <<node>>, !.ret = r.ret, !.before = glob,
                     !.exc = r.exc]
    /\ hist' = [hist EXCEPT !.n = @ + 1]
    /\ UNCHANGED <<code, vars_machine>>

\* CodeGenerator.code: a new EmitBlocks visits the tree.
do_EmitBlocks ==
    /\ status = "building"
    /\ LET r == EmitBlocks(glob) IN
       /\ code' = r.total
       /\ glob' = r.glob
    /\ ev' = [BEvent("EmitBlocks") EXCEPT
                !.before = glob,
                !.first = code,
                !.again = (ev.op = "EmitBlocks")]
    /\ UNCHANGED <<hist, status, vars_machine>>

\* ------------------------------------------------------ specification ---

\* Interpreter.__init__, and the job the run is given.
InitMachine ==
    /\ gdecl = 1
    /\ glob = GlobalBlock
    /\ hist = [n |-> 0, literals |-> << >>, formals |-> << >>,
               temps |-> << >>, unnamed |-> << >>, made |-> 1, idle |-> 0]
    /\ M = [a \in 0 .. MemSize - 1 |-> Uninit]
    /\ globals = EmptyMap
    /\ vars = EmptyMap
    /\ registers = <<Uninit>>
    /\ labels = EmptyMap
    /\ offset = 0
    /\ stack = << >>
    /\ sp = << >>
    /\ params = << >>
    /\ retval = << >>
    /\ returns = << >>
    /\ pc = 0
    /\ lastpc = 0
    /\ start = -1
    /\ input = << >>
    /\ out = << >>
    /\ errs = << >>
    /\ exc = ""
    /\ calls = << >>
    /\ pushed = << >>
    /\ fresh = {}
    /\ ev = [op |-> "init", at |-> 0, call |-> NoCall, operand |-> None,
             val |-> Uninit, unwritten |-> FALSE, values |-> << >>,
             ncall |-> 0, nret |-> 0]

Init ==
    /\ \E job \in Jobs :
         /\ code = job.code
         /\ stdin = job.stdin
         /\ ast = job.ast
         /\ status = IF job.ast # << >> THEN "compiling" ELSE "new"
    /\ InitMachine

Next ==
    \/ visit_FuncDef
    \/ run
    \/ Halt
    \/ run_label
    \/ run_unhandled
    \/ run_alloc
    \/ run_literal
    \/ run_load
    \/ run_store
    \/ run_print
    \/ run_arith
    \/ run_compare
    \/ run_param
    \/ run_jump
    \/ run_cbranch
    \/ run_call
    \/ run_define
    \/ run_return
    \/ run_read
    \/ _read_line_again

Spec == Init /\ [][Next]_vars_all

\* The interpreter is one thread that runs whenever it can: a step that is
\* possible is taken.
FairSpec == Spec /\ WF_vars_all(Next)

\* ---------------------------------------------------- two instances ---

\* Most Interpreter objects made in one process.
MaxInstances == 2

\* A local is allocated, written with k, read back and printed.
ProgStore(k) ==
    << DefineInstr("int", Global(".start"), <<>>),
       LabelInstr("entry"),
       AllocInstr("int", Named("a")),
       LiteralInstr("int", IntV(k), Temp(0)),
       StoreInstr("int", Temp(0), Named("a")),
       LoadInstr("int", Named("a"), Temp(1)),
       PrintInstr("int", Temp(1)) >>

\* A local is allocated and printed without having been written.
ProgPeek ==
    << DefineInstr("int", Global(".start"), <<>>),
       LabelInstr("entry"),
       AllocInstr("int", Named("a")),
       LoadInstr("int", Named("a"), Temp(0)),
       PrintInstr("int", Temp(0)) >>

\* The lists the instances are run on.
InstJobs == {ProgStore(3), ProgStore(7), ProgPeek, ProgGlobals(FALSE)}

\* Interpreter.__init__ called once more in the same process, before the
\* run of the instance made last or after it has returned or raised: the
\* module-level M is rebound to a new list, and one more instance exists
\* whose fields are those of InitMachine.
Interpreter__init__ ==
    /\ status \in {"new", "done", "crashed"}
    /\ hist.made < MaxInstances
    /\ M' = [a \in 0 .. MemSize - 1 |-> Uninit]
    /\ hist' = [hist EXCEPT !.made = @ + 1, !.idle = @ + 1]
    /\ ev' = Event("__init__")
    /\ UNCHANGED <<code, status, globals, vars_frame, labels, offset,
                   vars_stacks, params, pc, lastpc, start, vars_io, exc,
                   vars_hist, ast, gdecl, glob>>

\* run is called on an instance made earlier and not run yet, once the run
\* before has returned or raised: its fields are as __init__ left them,
\* M is the module's list as it is now.
run_idle_instance ==
    /\ status \in {"done", "crashed"}
    /\ hist.idle > 0
    /\ code' \in InstJobs
    /\ status' = "new"
    /\ exc' = ""
    /\ globals' = EmptyMap
    /\ vars' = EmptyMap
    /\ registers' = <<Uninit>>
    /\ labels' = EmptyMap
    /\ offset' = 0
    /\ stack' = << >>
    /\ sp' = << >>
    /\ params' = << >>
    /\ retval' = << >>
    /\ returns' = << >>
    /\ pc' = 0
    /\ lastpc' = 0
    /\ start' = -1
    /\ input' = << >>
    /\ out' = << >>
    /\ calls' = << >>
    /\ pushed' = << >>
    /\ fresh' = {}
    /\ hist' = [hist EXCEPT !.idle = @ - 1]
    /\ ev' = [Event("run_idle") EXCEPT !.at = 0]
    /\ UNCHANGED <<M, stdin, errs, ast, gdecl, glob>>

InstInit ==
    /\ code \in InstJobs
    /\ stdin = << >>
    /\ ast = << >>
    /\ status = "new"
    /\ InitMachine

InstNext ==
    \/ Interpreter__init__
    \/ run_idle_instance
    \/ run
    \/ Halt
    \/ run_define
    \/ run_label
    \/ run_alloc
    \/ run_literal
    \/ run_load
    \/ run_store
    \/ run_print

InstSpec == InstInit /\ [][InstNext]_vars_all

\* A CodeGenerator as constructed, its tree built call by call.
BlockInit ==
    /\ code = << >>
    /\ stdin = << >>
    /\ ast = << >>
    /\ status = "building"
    /\ InitMachine

BlockNext ==
    \/ do_new_literal
    \/ do_new_global
    \/ do_new_function
    \/ do_new_temp
    \/ do_new_block
    \/ do_append
    \/ do_EmitBlocks

BlockSpec == BlockInit /\ [][BlockNext]_vars_all

\* The operations visited: every operator, on a variable or a constant to
\* the left and a variable to the right.
BinaryOps ==
    { BinaryOp(op, left, ID("x", "int"), "int") :
        op \in DOMAIN binary_op, left \in {ID("a", "int"), IntConstant(0)} }

do_visit_BinaryOp ==
    /\ status = "visiting"
    /\ hist.n < MaxVisits
    /\ \E node \in BinaryOps :
       \E r \in {visit_BinaryOp(glob, node)} :
         /\ glob' = r.glob
         /\ ev' = [BEvent("visit_BinaryOp") EXCEPT
                     !.args = <<node>>, !.ret = r.ret, !.before = glob]
    /\ hist' = [hist EXCEPT !.n = @ + 1]
    /\ UNCHANGED <<code, status, vars_machine>>

\* The operator visitor, called on the first block of a new function.
OpNext ==
    \/ set_current
    \/ do_visit_BinaryOp

OpSpec == BlockInit /\ [][OpNext]_vars_all

\* The expression visitors, called on the first block of a new function.
ExprNext ==
    \/ set_current
    \/ do_visit_ArrayRef
    \/ do_visit_FuncCall
    \/ do_visit_Assignment

ExprSpec == BlockInit /\ [][ExprNext]_vars_all

\* ------------------------------------------------------------- claims ---

\* The step just taken was a return that popped a frame; ev.call is the
\* call it matches.
Returned == ev.op = "return" /\ status = "running"

\* Register r of a bank; a register the bank has not grown to reads as the
\* marker once it is allocated.
Reg(regs, r) == IF r < Len(regs) THEN regs[r + 1] ELSE Uninit

Longest(a, b) == IF Len(a) >= Len(b) THEN Len(a) ELSE Len(b)

\* C1: right after a return, at any depth, the local table is the table
\* the matching call found, and the register bank equals the bank the call
\* found in every register other than the target register the call names.
C1_FrameRestored ==
    Returned =>
      /\ vars = ev.call.vars
      /\ \A r \in 0 .. Longest(registers, ev.call.registers) - 1 :
           \/ ev.call.target.k = "temp" /\ r = ev.call.target.i
           \/ Reg(registers, r) = Reg(ev.call.registers, r)

\* For the calls that name a target register the frame does come back:
\* the table, and every register but the target.
FrameRestoredWithTarget ==
    (Returned /\ ev.call.target.k = "temp") => C1_FrameRestored

\* A call always lands on a define, which rebinds self.vars to a new table:
\* the table saved by _push is never written through the callee.
CallLandsOnDefine ==
    (ev.op = "call" /\ status = "running") => code[pc + 1].op = "define"

\* C2: right after a return matching the call at index i the program
\* counter is i + 1, the index the next step fetches from.
C2_ResumesAfterCall == Returned => pc = ev.call.at + 1

C2_Witness ==
    /\ Returned
    /\ Len(stack) >= 1
    /\ pc = ev.call.at + 1
    /\ code[pc + 1].op = "load"

\* C3: right after a return the allocation mark is the mark the matching
\* call found, whatever the callee and its callees allocated.
C3_MarkRestored == Returned => offset = ev.call.offset

\* A return inside a recursion: the cell at the restored mark still holds
\* what the callee stored in the local it allocated there.
C3_Witness ==
    /\ Returned
    /\ Len(stack) >= 1
    /\ offset = ev.call.offset
    /\ M[offset] # Uninit

\* C4: right after "return v" matching a call that names target register
\* t, register t of the caller holds the value v had in the callee's bank.
C4_ResultDelivered ==
    (Returned /\ ev.operand.k # "none" /\ ev.call.target.k = "temp") =>
      registers[ev.call.target.i + 1] = ev.val

C4_Witness ==
    /\ Returned
    /\ Len(stack) >= 1
    /\ ev.operand.k = "temp"
    /\ ev.call.target.k = "temp"
    /\ ev.val = IntV(11)
    /\ registers[ev.call.target.i + 1] = IntV(11)

\* C5: when a call preceded by exactly n params (and by no other call
\* after the first of them) enters a define with n formals, the register of
\* formal i holds the i-th value pushed and no parameter is left queued.
C5_ParamsBound ==
    (/\ ev.op = "define"
     /\ ev.call.at # -1
     /\ Len(ev.call.pushed) = Len(code[ev.at + 1].args)) =>
      /\ params = << >>
      /\ \A i \in 1 .. Len(ev.call.pushed) :
           registers[code[ev.at + 1].args[i].i + 1] = ev.call.pushed[i]

C5_Witness ==
    /\ ev.op = "define"
    /\ ev.call.pushed = << IntV(11), IntV(12) >>
    /\ Len(code[ev.at + 1].args) = 2
    /\ registers = << IntV(11), IntV(12) >>
    /\ params = << >>

\* C6: generating code for the add/main program and running it does not
\* fail, and the finished run has written exactly 5.
C6_AddPrintsFive ==
    ast = AddProgram =>
      /\ status # "crashed"
      /\ status = "done" => out = << <<"int", 5>> >>

\* C7: a load from a named local allocated in the current frame and not
\* stored to in that frame completes and yields the marker.
C7_FreshLocalUninit ==
    (ev.op = "load" /\ ev.unwritten) =>
      status = "running" /\ ev.val = Uninit

\* The step just taken was a binary operation that read both operands, at
\* least one of them the marker.
UninitOperand ==
    /\ Len(ev.values) = 2
    /\ Uninit \in {ev.values[1], ev.values[2]}

\* C8: a comparison (lt, le, gt, ge, eq, ne) with the marker for either
\* operand completes and leaves false in the target register.
C8_UninitCompare ==
    (ev.op \in RelOps /\ UninitOperand) =>
      /\ status = "running"
      /\ registers[code[ev.at + 1].z.i + 1] = BoolV(FALSE)

C8_Witness ==
    /\ ev.op = "ne"
    /\ ev.values = << Uninit, Uninit >>
    /\ status = "running"
    /\ registers[code[ev.at + 1].z.i + 1] = BoolV(FALSE)

\* C9: add, sub, mul, div and mod, of int and of float type, with the
\* marker for either operand complete and leave the marker in the target.
C9_UninitArithmetic ==
    (/\ ev.op \in ArithOps
     /\ code[ev.at + 1].type \in {"int", "float"}
     /\ UninitOperand) =>
      /\ status = "running"
      /\ registers[code[ev.at + 1].z.i + 1] = Uninit

\* The next token of a line: leading spaces skipped, up to the next space.
RECURSIVE SkipSpaces(_)
SkipSpaces(line) ==
    IF line # << >> /\ Head(line) = " " THEN SkipSpaces(Tail(line)) ELSE line

Token(line) ==
    LET l == SkipSpaces(line)
        sp1 == FirstSpace(l, 1)
    IN  IF sp1 = 0 THEN l ELSE SubSeq(l, 1, sp1 - 1)

\* C10: a read of int or float type whose token is no number reports
\* "Illegal input value.", changes no memory cell, leaves the run going
\* and moves on to the next instruction.
C10_IllegalInput ==
    [][(/\ Running("read")
        /\ Fetched.type \in {"int", "float"}
        /\ ~ReadLine(input, stdin).hung
        /\ ~IsNumeral(Token(ReadLine(input, stdin).input))) =>
         /\ errs' = Append(errs, "Illegal input value.")
         /\ M' = M
         /\ status' = "running"
         /\ pc' = pc + 1]_vars_all

\* The load after a rejected read finds the 5 stored before it.
C10_Witness ==
    /\ ev.op = "load"
    /\ code[ev.at].op = "read"
    /\ code[ev.at].type \in {"int", "float"}
    /\ errs = << "Illegal input value." >>
    /\ status = "running"
    /\ ev.val = IntV(5)

\* The quotient of a by b rounded toward zero.
TruncDiv(a, b) ==
    IF (a < 0) = (b < 0) THEN Abs(a) \div Abs(b) ELSE -(Abs(a) \div Abs(b))

\* C11: a div of a type other than float on integers a and b, b not 0,
\* leaves in the target the quotient rounded toward zero, whatever the
\* signs (-7 div 2 is -3).
C11_DivTruncates ==
    (/\ ev.op = "div"
     /\ code[ev.at + 1].type # "float"
     /\ Len(ev.values) = 2
     /\ ev.values[1].t = "int" /\ ev.values[2].t = "int"
     /\ ev.values[2].n # 0) =>
      /\ status = "running"
      /\ registers[code[ev.at + 1].z.i + 1]
           = IntV(TruncDiv(ev.values[1].n, ev.values[2].n))

\* The declarations of the text section made for a (typename, value) pair.
Declared(pair) ==
    {t \in 1 .. Len(glob.text) :
       glob.text[t].type = pair[1] /\ glob.text[t].init = pair[2]}

\* C12: two new_literal calls with the same (type, value), whatever
\* new_literal calls lie between them, return the same symbol, and the text
\* section holds exactly one declaration for the pair.
C12_LiteralCached ==
    \A i, j \in 1 .. Len(hist.literals) :
      (i < j /\ hist.literals[i].args = hist.literals[j].args) =>
        /\ hist.literals[i].ret = hist.literals[j].ret
        /\ Cardinality(Declared(hist.literals[i].args)) = 1

\* The same pair asked for a second time after a different pair of the
\* same type.
C12_Witness ==
    /\ Len(hist.literals) = 3
    /\ hist.literals[1].args = hist.literals[3].args
    /\ hist.literals[2].args # hist.literals[1].args
    /\ hist.literals[2].args[1] = hist.literals[1].args[1]
    /\ hist.literals[1].ret = hist.literals[3].ret
    /\ Len(glob.text) = 2

\* C13: the symbols new_literal made for two values of one type are
\* distinct: they compare unequal, as keys of a table they select two
\* entries, and the one made later has the larger version.
C13_LiteralsDistinct ==
    \A t, u \in 1 .. Len(glob.text) :
      (t < u /\ glob.text[t].type = glob.text[u].type) =>
        LET a == glob.text[t].x
            b == glob.text[u].x
        IN  /\ ~VariableEq(a, b)
            /\ Len(DictSet(DictSet(<< >>, a, t), b, u)) = 2
            /\ b.i > a.i

\* The temporaries of function fn: its formals, then what new_temp gave.
TempsOf(fn) == glob.functions[fn].define.args \o hist.temps[fn]

\* C14: a function made with n formal parameters binds them to the
\* temporaries 0 .. n-1 in order, the k-th new_temp call made afterwards on
\* the function or on one of its blocks returns temporary n+k-1, and no two
\* temporaries of the function share a number.
C14_TempsNumbered ==
    \A fn \in 1 .. Len(glob.functions) :
      LET n == hist.formals[fn] IN
      /\ glob.functions[fn].define.args = [i \in 1 .. n |-> Temp(i - 1)]
      /\ \A k \in 1 .. Len(hist.temps[fn]) :
           hist.temps[fn][k] = Temp(n + k - 1)
      /\ Cardinality({TempsOf(fn)[i].i : i \in 1 .. Len(TempsOf(fn))})
           = n + Len(hist.temps[fn])

\* A function of two formals whose second new_temp went through a block.
C14_Witness ==
    /\ ev.op = "new_temp"
    /\ ev.via = "BasicBlock"
    /\ hist.formals[ev.fn] = 2
    /\ hist.temps[ev.fn] = << Temp(2), Temp(3) >>

RECURSIVE Concat(_)
Concat(seqs) ==
    IF Len(seqs) = 0 THEN << >> ELSE Head(seqs) \o Concat(Tail(seqs))

\* A block's label and then its instructions; a function's define and then
\* its blocks.
BlockFlat(b) == << b.label_def >> \o b.instr
FunctionFlat(f) ==
    << f.define >> \o Concat([j \in 1 .. Len(f.blocks) |-> BlockFlat(f.blocks[j])])

\* How many instructions the tree holds.
RECURSIVE Sum(_)
Sum(ns) == IF Len(ns) = 0 THEN 0 ELSE Head(ns) + Sum(Tail(ns))
TreeSize(g) ==
    Len(g.text) + Len(g.data)
      + Sum([fn \in 1 .. Len(g.functions) |->
               1 + Sum([j \in 1 .. Len(g.functions[fn].blocks) |->
                          1 + Len(g.functions[fn].blocks[j].instr)])])

\* C16: the flat list is the text declarations in creation order, then the
\* data declarations in creation order, then for each function in creation
\* order its define and, for each of its blocks in creation order, the label
\* and the block's instructions in append order; the list is as long as the
\* tree has instructions, so each appears exactly once.
C16_FlatOrder ==
    ev.op = "EmitBlocks" =>
      /\ code = glob.text \o glob.data
                  \o Concat([fn \in 1 .. Len(glob.functions) |->
                               FunctionFlat(glob.functions[fn])])
      /\ Len(code) = TreeSize(glob)

\* A flattened tree with both sections, a function and a block.
C16_Witness ==
    /\ ev.op = "EmitBlocks"
    /\ glob.text # << >>
    /\ glob.data # << >>
    /\ \E fn \in 1 .. Len(glob.functions) : glob.functions[fn].blocks # << >>
    /\ Len(code) = 4

\* A flattened block that was appended to twice, with different instructions.
C16_AppendOrderReached ==
    /\ ev.op = "EmitBlocks"
    /\ \E fn \in 1 .. Len(glob.functions) :
       \E j \in 1 .. Len(glob.functions[fn].blocks) :
         LET instr == glob.functions[fn].blocks[j].instr IN
         Len(instr) = 2 /\ instr[1] # instr[2]

\* C17: right after new_function returns, the new function is the last
\* entry of the function list and owns exactly one block, its entry block.
C17_FunctionHasEntry ==
    ev.op = "new_function" =>
      /\ glob.functions # << >>
      /\ glob.functions[Len(glob.functions)] = ev.ret
      /\ Len(ev.ret.blocks) = 1
      /\ ev.ret.blocks[1].label_def = LabelInstr("entry")

\* What new_function does establish: the function is last in the list, and
\* it owns no block until new_block is called on it.
C17_FunctionLastNoBlock ==
    ev.op = "new_function" =>
      /\ glob.functions # << >>
      /\ glob.functions[Len(glob.functions)] = ev.ret
      /\ ev.ret.blocks = << >>

\* The registers after the interpreter's handlers ran a straight piece of
\* code: run_literal stores the immediate, _run_binop applies the operator
\* to the two operand registers, and run_load, run_get and run_elem put
\* what they fetch, here the value base, in their target.
RECURSIVE RunStraight(_, _, _)
RunStraight(instrs, regs, base) ==
    IF instrs = << >> THEN regs
    ELSE LET instr == Head(instrs)
             grown == _alloc_reg(regs, instr.z.i)
             value ==
               CASE instr.op = "literal" -> instr.value
                 [] instr.op \in ArithOps ->
                      BinOp(instr.op, instr.type,
                            _alloc_reg(regs, instr.x.i)[instr.x.i + 1],
                            _alloc_reg(regs, instr.y.i)[instr.y.i + 1])
                 [] OTHER -> IntV(base)
         IN  RunStraight(Tail(instrs), SetReg(grown, instr.z.i, value), base)

\* The instructions the last visit appended to the current block.
Emitted ==
    SubSeq(glob.functions[1].blocks[1].instr,
           Len(ev.before.functions[1].blocks[1].instr) + 1,
           Len(glob.functions[1].blocks[1].instr))

\* C18: for an array reference with element size k and index value i, the
\* offset operand of the instruction that combines it with the array base
\* (the closing add or elem) holds i*k at run time when k # 1 and i when
\* k = 1, and the emitted code has a mul instruction only when k # 1.
C18_ArrayOffset ==
    ev.op = "visit_ArrayRef" =>
      LET node == ev.args[1]
          k == SizeOf(node.uc_type)
          i == node.index.value
          last == Emitted[Len(Emitted)]
      IN  /\ last.op \in {"add", "elem"}
          /\ last.x = Emitted[1].z
          /\ last.z = ev.ret
          /\ \A base \in 0 .. MemSize - 1 :
               LET regs == RunStraight(Emitted, << >>, base) IN
               /\ regs[last.x.i + 1] = IntV(base)
               /\ regs[last.y.i + 1] = IntV(IF k # 1 THEN i * k ELSE i)
          /\ (\E e \in 1 .. Len(Emitted) : Emitted[e].op = "mul") <=> k # 1

\* A reference to an element of two storage units at a non-zero index.
C18_Witness ==
    /\ ev.op = "visit_ArrayRef"
    /\ SizeOf(ev.args[1].uc_type) = 2
    /\ ev.args[1].index.value = 2
    /\ \E e \in 1 .. Len(Emitted) : Emitted[e].op = "mul"

\* A reference to an element of one storage unit, loaded by elem.
C18_UnitElementReached ==
    /\ ev.op = "visit_ArrayRef"
    /\ SizeOf(ev.args[1].uc_type) = 1
    /\ ev.args[1].index.value = 2
    /\ Emitted[Len(Emitted)].op = "elem"

\* The flat list has a define for the function named .start.
HasStart ==
    \E i \in 1 .. Len(code) :
      code[i].op = "define" /\ code[i].x = Global(".start")

\* C19: when the flat list has a define for .start, the first instruction
\* the interpreter executes is that define; when it has none, execution
\* begins at the index just past the scan of the globals.
C19_EntryPoint ==
    ev.op = "run" =>
      /\ status = "running"
      /\ IF HasStart
         THEN /\ pc \in 0 .. Len(code) - 1
              /\ Fetched.op = "define"
              /\ Fetched.x = Global(".start")
         ELSE pc = Len(code)

\* The same for every list that has an instruction.
C19_EntryPointNonEmpty ==
    (ev.op = "run" /\ code # << >>) => C19_EntryPoint

\* A run was started on a list whose .start define is not its first
\* instruction, and on a list without one.
C19_StartReached ==
    ev.op = "run" /\ HasStart /\ pc > 0

C19_NoStartReached ==
    ev.op = "run" /\ ~HasStart /\ code # << >> /\ pc = Len(code)

\* C20: for any instruction list, the empty one included, run ends without
\* an error as soon as the program counter is at or past the end.
C20_RunsOffTheEnd ==
    /\ (ev.op = "run" /\ ~HasStart) => status = "running" /\ pc >= Len(code)
    /\ (status = "running" /\ pc >= Len(code)) => ENABLED Halt
    /\ ev.op = "halt" => status = "done" /\ exc = ""

\* The same for every list that has an instruction.
C20_RunsOffTheEndNonEmpty ==
    code # << >> => C20_RunsOffTheEnd

\* The interpreter's state apart from the program counter and its output.
vars_interp ==
    <<M, vars, registers, globals, labels, offset, params, stack, sp, retval,
      returns, out, input, stdin, code>>

\* The loop is at an instruction of this kind.
AtUnhandled ==
    /\ status = "running"
    /\ pc \in 0 .. Len(code) - 1
    /\ Fetched.op \notin HandledOps \cup {"label"}

AtLabel == Running("label")

\* C21: an instruction whose opcode has no handler only advances the
\* program counter by one and prints a warning, registers, memory, tables,
\* parameter queue and stacks staying as they are, and the run goes on with
\* the next instruction; a label is passed the same way without a warning.
C21_UnhandledSkipped ==
    [][/\ AtUnhandled =>
            /\ pc' = pc + 1
            /\ UNCHANGED vars_interp
            /\ status' = "running"
            /\ errs' = Append(errs, Warning(Fetched.op))
       /\ AtLabel =>
            /\ pc' = pc + 1
            /\ UNCHANGED vars_interp
            /\ status' = "running"
            /\ errs' = errs]_vars_all

\* The print that follows a skipped instruction and a label was executed,
\* with the register written before them.
C21_Witness ==
    /\ ev.op = "print"
    /\ ev.at >= 2
    /\ code[ev.at].op = "label"
    /\ code[ev.at - 1].op \in {"global", "copy"}
    /\ Len(errs) = 1
    /\ out # << >>

\* C22: the stack of saved frames, the stack of saved marks, the stack of
\* result registers and the stack of return indices always have one length,
\* the number of call instructions executed minus the number of return
\* instructions executed.
C22_StacksBalanced ==
    status \in {"running", "done", "crashed"} =>
      /\ Len(stack) = ev.ncall - ev.nret
      /\ Len(sp) = Len(stack)
      /\ Len(retval) = Len(stack)
      /\ Len(returns) = Len(stack)

\* A recursive run is one call deep again after three calls and two returns.
C22_Witness ==
    /\ status = "running"
    /\ ev.ncall = 3
    /\ ev.nret = 2
    /\ Len(stack) = 1

\* The instructions of this opcode among those the last visit appended.
EmittedOf(op) == {e \in 1 .. Len(Emitted) : Emitted[e].op = op}

\* C23: for a call with n arguments visit_FuncCall appends one param per
\* argument, in left-to-right order, and then exactly one call whose source
\* is the temporary of the callee's address and whose target is the
\* temporary the visit returns.
C23_CallEmitted ==
    ev.op = "visit_FuncCall" =>
      LET node == ev.args[1]
          n == Len(node.params)
          last == Emitted[Len(Emitted)]
      IN  /\ ev.exc = ""
          /\ Len(Emitted) = 2 + 2 * n
          /\ \A i \in 1 .. n :
               /\ Emitted[2 * i].op = "literal"
               /\ Emitted[2 * i].value = IntV(node.params[i].value)
               /\ Emitted[2 * i + 1].op = "param"
               /\ Emitted[2 * i + 1].x = Emitted[2 * i].z
          /\ EmittedOf("call") = {Len(Emitted)}
          /\ last.x = Emitted[1].z
          /\ last.z = ev.ret
          /\ ev.ret.k = "temp"

\* What visit_FuncCall does append: with arguments the params in order and
\* the last of them once more, and never a call; without arguments it
\* raises after loading the callee's address.
C23_LastParamRepeated ==
    ev.op = "visit_FuncCall" =>
      LET n == Len(ev.args[1].params) IN
      /\ EmittedOf("call") = {}
      /\ IF n = 0
         THEN ev.exc = "UnboundLocalError" /\ Len(Emitted) = 1
         ELSE /\ ev.exc = ""
              /\ Len(Emitted) = 2 + 2 * n
              /\ Emitted[Len(Emitted)] = Emitted[Len(Emitted) - 1]
              /\ Emitted[Len(Emitted)].op = "param"

\* The registers and the memory after the interpreter's handlers ran a
\* straight piece of code in a frame whose local table is table:
\*   run_literal  registers[target] = value
\*   _run_binop   registers[target] = op(left, right)
\*   run_load     registers[target] = M[address of varname]
\*   run_elem     registers[target] = M[base + idx]
\*   run_store    M[value of target] = value of source
RECURSIVE ExecStraight(_, _, _)
ExecStraight(instrs, st, table) ==
    IF instrs = << >> THEN st
    ELSE
      LET instr == Head(instrs)
          Get(operand) ==
            IF operand.k = "temp"
            THEN _alloc_reg(st.regs, operand.i)[operand.i + 1]
            ELSE IntV(table[operand])
          Set(v) == SetReg(_alloc_reg(st.regs, instr.z.i), instr.z.i, v)
          next ==
            CASE instr.op = "literal" -> [st EXCEPT !.regs = Set(instr.value)]
              [] instr.op \in ArithOps \cup RelOps \cup LogicOps ->
                   [st EXCEPT !.regs = Set(BinOp(instr.op, instr.type,
                                                 Get(instr.x), Get(instr.y)))]
              [] instr.op = "load" ->
                   [st EXCEPT !.regs = Set(st.M[Get(instr.x).n])]
              [] instr.op = "elem" ->
                   [st EXCEPT !.regs = Set(st.M[Get(instr.x).n + Get(instr.y).n])]
              [] instr.op = "store" ->
                   [st EXCEPT !.M[Get(instr.z).n] = Get(instr.x)]
              [] OTHER -> st
      IN  ExecStraight(Tail(instrs), next, table)

\* A frame for the emitted code: x lives at address 1, and the cell of a,
\* at address 0, holds the address 2 where the elements of the array begin.
AssignFrame ==
    [regs |-> << >>,
     M |-> [c \in 0 .. MemSize - 1 |-> IF c = 0 THEN IntV(2) ELSE Uninit]]

AssignTable == (Named("a") :> 0) @@ (Named("x") :> 1)

\* C24: for an assignment whose target is an array element, running the
\* emitted code writes the value computed for the source into the memory
\* cell whose address was computed for the target.
C24_ElementAssigned ==
    (ev.op = "visit_Assignment" /\ ev.args[1].right.kind # "ID") =>
      LET before == ExecStraight(Front(Emitted), AssignFrame, AssignTable)
          after == ExecStraight(Emitted, AssignFrame, AssignTable)
          address == before.regs[ev.args[2].i + 1]
          value == before.regs[ev.ret.i + 1]
      IN  /\ value = IntV(ev.args[1].left.value)
          /\ address = IntV(2 + ev.args[1].right.index.value)
          /\ after.M[address.n] = value

\* What the emitted code does: its last instruction is an elem, which
\* loads the cell at the address "value + 0" into the register that held
\* the target's address, and memory is left as it was.
C24_ElementLoaded ==
    (ev.op = "visit_Assignment" /\ ev.args[1].right.kind # "ID") =>
      LET before == ExecStraight(Front(Emitted), AssignFrame, AssignTable)
          after == ExecStraight(Emitted, AssignFrame, AssignTable)
      IN  /\ Emitted[Len(Emitted)].op = "elem"
          /\ after.M = AssignFrame.M
          /\ after.regs[ev.args[2].i + 1]
               = AssignFrame.M[ev.args[1].left.value]

\* An assignment to a plain identifier stores the value at its address.
C24_IdentifierAssigned ==
    (ev.op = "visit_Assignment" /\ ev.args[1].right.kind = "ID") =>
      ExecStraight(Emitted, AssignFrame, AssignTable).M[1]
        = IntV(ev.args[1].left.value)

\* The loop is at an alloc whose variable is a temporary.
AtAllocTemp == Running("alloc") /\ Fetched.x.k = "temp"

\* C25: an alloc on a temporary leaves the allocation mark, the memory
\* and the local table as they were.
C25_AllocTempKeepsMark ==
    [][AtAllocTemp => /\ offset' = offset
                      /\ M' = M
                      /\ vars' = vars]_vars_all

\* What the alloc does: memory and the local table stay, the register
\* receives the mark, and the mark moves on by the size of the type.
C25_AllocTempMovesMark ==
    [][AtAllocTemp => /\ offset' = offset + SizeOf(Fetched.type)
                      /\ registers'[Fetched.x.i + 1] = IntV(offset)
                      /\ M' = M
                      /\ vars' = vars]_vars_all

\* The position in the list of the define whose function the instruction
\* at position j belongs to, 0 before the first define.
RECURSIVE FunctionOf(_)
FunctionOf(j) ==
    IF j = 0 THEN 0
    ELSE IF code[j].op = "define" THEN j ELSE FunctionOf(j - 1)

\* The run went on at the instruction after the label instruction that
\* carries this name in the function of the instruction just executed.
LandedOn(name) ==
    /\ pc \in 1 .. Len(code)
    /\ code[pc].op = "label"
    /\ code[pc].x = name
    /\ FunctionOf(pc) = FunctionOf(ev.at + 1)

\* C26: after the define of f the local table maps every label of f to the
\* index directly after its label instruction, and a jump or a cbranch to
\* a label goes on there, in f's own block also when another function has
\* a label of that name.
C26_LabelsResolved ==
    /\ (ev.op = "define" /\ status = "running") =>
         \A j \in 1 .. Len(code) :
           (code[j].op = "label" /\ FunctionOf(j) = ev.at + 1) =>
             /\ code[j].x \in DOMAIN vars
             /\ vars[code[j].x] = j
    /\ (ev.op = "jump" /\ status = "running") =>
         LandedOn(code[ev.at + 1].z)
    /\ (ev.op = "cbranch" /\ status = "running") =>
         LandedOn(code[ev.at + 1].y) \/ LandedOn(code[ev.at + 1].z)

\* A jump in the second function of the list landed on its own block, the
\* first function having a block of the same name.
C26_Witness ==
    /\ ev.op = "jump"
    /\ status = "running"
    /\ FunctionOf(ev.at + 1) > 1
    /\ \E j \in 1 .. FunctionOf(ev.at + 1) - 1 :
         code[j].op = "label" /\ code[j].x = code[ev.at + 1].z
    /\ code[pc + 1].op \in {"print", "literal"}

\* The named variables in the tables of the frames below the current one.
CallerVariables ==
    UNION {{v \in DOMAIN calls[c].vars : v.k = "named"} :
             c \in 1 .. Len(calls)}

\* C27: right after the define of a callee the local table holds the
\* labels of that function and nothing else; no named variable of the
\* caller or of an earlier frame can be resolved.
C27_CalleeTableFresh ==
    (ev.op = "define" /\ status = "running") =>
      /\ DOMAIN vars = {code[j].x : j \in {i \in 1 .. Len(code) :
                          code[i].op = "label" /\ FunctionOf(i) = ev.at + 1}}
      /\ \A v \in CallerVariables : ~HasLabel(v)

\* The define of a callee was executed two calls deep, each caller having
\* allocated a named variable.
C27_Witness ==
    /\ ev.op = "define"
    /\ status = "running"
    /\ Len(calls) = 2
    /\ \A c \in 1 .. 2 : \E v \in DOMAIN calls[c].vars : v.k = "named"

\* What is left of a line once its next token is taken away.
AfterToken(line) ==
    LET l == SkipSpaces(line)
    IN  SubSeq(l, Len(Token(line)) + 1, Len(l))

\* A read of int type is about to run on a line it can take, into a
\* destination that resolves to a memory cell.
AtIntRead ==
    /\ Running("read")
    /\ Fetched.type = "int"
    /\ ~ReadLine(input, stdin).hung
    /\ CanGetValue(Fetched.x)
    /\ IsIntLike(_get_value(registers, Fetched.x))
    /\ IndexOk(_get_value(registers, Fetched.x))

\* C28: a read of int type whose next token is a number stores that number
\* at the destination and leaves in the buffer the tokens after it, whether
\* or not another token follows on the line.
C28_IntegerRead ==
    [][(/\ AtIntRead
        /\ IsNumeral(Token(ReadLine(input, stdin).input))) =>
         LET line == ReadLine(input, stdin).input
             dest == Index(_get_value(registers, Fetched.x))
         IN  /\ M'[dest] = IntV(Numeral(Token(line)))
             /\ SkipSpaces(input') = SkipSpaces(AfterToken(line))
             /\ errs' = errs]_vars_all

\* The same when the line begins with the number and a space follows it.
C28_IntegerReadFollowed ==
    [][(/\ AtIntRead
        /\ FirstSpace(ReadLine(input, stdin).input, 1) > 1
        /\ IsNumeral(Token(ReadLine(input, stdin).input))) =>
         LET line == ReadLine(input, stdin).input
             dest == Index(_get_value(registers, Fetched.x))
         IN  /\ M'[dest] = IntV(Numeral(Token(line)))
             /\ input' = SubSeq(AfterToken(line), 2, Len(AfterToken(line)))
             /\ errs' = errs]_vars_all

\* A number followed by a space was read and stored.
C28_FollowedReached ==
    /\ ev.op = "load"
    /\ code[ev.at].op = "read"
    /\ code[ev.at].type = "int"
    /\ errs = << >>
    /\ ev.val = IntV(12)

\* A line holding one number and nothing else was rejected.
C28_LastTokenRejected ==
    /\ ev.op = "read"
    /\ code[ev.at + 1].type = "int"
    /\ input = << "1", "2" >>
    /\ errs = << "Illegal input value." >>

\* The run is over: run returned or an exception left it.
Ended == status \in {"done", "crashed"}

\* A read is about to run with an empty buffer and no line left to take.
AtReadAtEnd == \E ty \in {"int", "float", "char", "string"} :
    /\ Running("read")
    /\ Fetched.type = ty
    /\ ReadLine(input, stdin).hung

\* C29: a read that finds the buffer empty and the input at its end
\* completes, and the run it is part of ends.
C29_ReadAtEndEnds == AtReadAtEnd ~> Ended

\* A read that finds a line to take completes in its one step.
C29_ReadWithLineCompletes ==
    [][(Running("read") /\ ~ReadLine(input, stdin).hung) =>
         status' \in {"running", "crashed"}]_vars_all

\* Every run that never reads at the end of the input ends.
C29_OtherRunsEnd == <>(Ended \/ status = "hung")

\* Once in the loop at the end of the input the run stays in it.
C29_LoopHasNoExit == [][status = "hung" => status' = "hung"]_vars_all

\* The loop at the end of the input has gone round.
C29_LoopReached ==
    /\ status = "hung"
    /\ EndReports = MaxTurns
    /\ input = << >>
    /\ stdin = << >>

\* A return is about to run although no call is waiting for it.
AtUnmatchedReturn ==
    /\ Running("return")
    /\ Len(stack) = 0

\* C30: a return with no call to go back to ends the run with an error;
\* the table of locals, the mark and the four stacks are as they were, the
\* bank is the one of the returning frame (register 0 apart, which the
\* return itself may have written), and nothing runs after it.
C30_UnmatchedReturnFatal ==
    [][/\ AtUnmatchedReturn =>
            /\ status' = "crashed"
            /\ exc' \in {"IndexError", "KeyError"}
            /\ vars' = vars
            /\ offset' = offset
            /\ UNCHANGED vars_stacks
            /\ Len(registers') >= Len(registers)
            /\ \A i \in 2 .. Len(registers) : registers'[i] = registers[i]
            /\ out' = out
       /\ status = "crashed" => UNCHANGED vars_all]_vars_all

\* The return of the entry function, with an operand or with none, ended
\* the run after the store before it and before the print after it.
C30_Witness ==
    /\ ev.op = "return"
    /\ status = "crashed"
    /\ exc = "IndexError"
    /\ Len(stack) = 0
    /\ code[ev.at].op = "store"
    /\ pc < Len(code) /\ code[pc + 1].op = "print"
    /\ DOMAIN vars # {}
    /\ offset > 0
    /\ out = << >>

\* The global and define instructions of the list, by position.
GlobalDefs == {i \in 1 .. Len(code) : code[i].op \in {"global", "define"}}

\* The cells the instruction at position i takes.
CellsOf(i) == IF code[i].op = "global" THEN SizeOf(code[i].type) ELSE 1

\* The cells taken by the global and define instructions ahead of i.
RECURSIVE CellsAhead(_)
CellsAhead(i) ==
    IF i <= 1 THEN 0
    ELSE CellsAhead(i - 1)
           + (IF (i - 1) \in GlobalDefs THEN CellsOf(i - 1) ELSE 0)

\* C31: after the pass over the list every global and every function has
\* an address of its own, given out in the order of the list; the cells of
\* a global with an initializer hold it, and the cell of a function holds
\* the index of its define.
C31_GlobalsPrepared ==
    (ev.op = "run" /\ status = "running") =>
      /\ DOMAIN globals = {code[i].x : i \in GlobalDefs}
      /\ \A i \in GlobalDefs : globals[code[i].x] = CellsAhead(i)
      /\ \A i, j \in GlobalDefs :
           code[i].x # code[j].x => globals[code[i].x] # globals[code[j].x]
      /\ \A i \in GlobalDefs :
           IF code[i].op = "define"
           THEN M[globals[code[i].x]] = IntV(i - 1)
           ELSE \A k \in 1 .. Len(code[i].init) :
                  M[globals[code[i].x] + k - 1] = code[i].init[k]
      /\ offset = CellsAhead(Len(code) + 1)

\* The pass went over a list with a global of two cells followed by other
\* globals and functions, one function lying between two globals.
C31_Witness ==
    /\ ev.op = "run"
    /\ status = "running"
    /\ \E i, j, k \in GlobalDefs :
         /\ i < j /\ j < k
         /\ code[i].op = "global" /\ code[i].init # << >>
         /\ code[j].op = "define"
         /\ code[k].op = "global" /\ SizeOf(code[k].type) = 2
         /\ \E l \in GlobalDefs : l > k

\* C32: the unnamed blocks of a function are named .L0, .L1, ... in the
\* order they were made, and its temporaries are numbered on from its
\* formals, whatever calls of new_temp and new_block were made in between
\* on this function or on another.
C32_CountersApart ==
    \A fn \in 1 .. Len(glob.functions) :
      /\ hist.unnamed[fn] = [k \in 1 .. Len(hist.unnamed[fn]) |-> DotL(k - 1)]
      /\ hist.temps[fn] = [k \in 1 .. Len(hist.temps[fn]) |->
                             Temp(hist.formals[fn] + k - 1)]

\* The first unnamed block of a second function, which has formals, was
\* made after the first function had its own first unnamed block.
C32_Witness ==
    /\ ev.op = "new_block"
    /\ ev.fn = 2
    /\ hist.formals[2] > 0
    /\ hist.unnamed = << << ".L0" >>, << ".L0" >> >>

\* An unnamed block was made after a temporary on the same function, and a
\* temporary after an unnamed block.
C32_InterleavedReached ==
    /\ Len(glob.functions) = 1
    /\ hist.temps[1] # << >>
    /\ hist.unnamed[1] = << ".L0", ".L1" >>
    /\ glob.functions[1].blocks[1].label_def.x.s = ".L0"

\* The values the two variables of an operation may hold when it runs.
OperandValues == {IntV(0), IntV(1), IntV(2), Uninit}

\* A frame for the emitted code: a lives at address 0 and holds lv, x lives
\* at address 1 and holds rv.
OpFrame(lv, rv) ==
    [regs |-> << >>,
     M |-> [c \in 0 .. MemSize - 1 |->
              IF c = 0 THEN lv ELSE IF c = 1 THEN rv ELSE Uninit]]

\* The temporaries the block named before the visit: the formals and every
\* operand and target of its instructions.
TempsBefore ==
    LET was == ev.before.functions[1] IN
    {was.define.args[i] : i \in 1 .. Len(was.define.args)}
      \cup UNION {{was.blocks[1].instr[i].x, was.blocks[1].instr[i].y,
                   was.blocks[1].instr[i].z} :
                    i \in 1 .. Len(was.blocks[1].instr)}

\* C33: for every operator, && and || among them, the visit appends the
\* instructions of the left operand, then those of the right operand, then
\* one instruction of the operator on the two results with a target no
\* instruction used before; there is no branch among them, and when they
\* run both operands are fetched into their registers whatever value the
\* left one has.
C33_NoShortCircuit ==
    ev.op = "visit_BinaryOp" =>
      LET node == ev.args[1]
          last == Emitted[Len(Emitted)]
      IN  /\ Len(Emitted) = 3
          /\ Emitted[1].op = IF node.left.kind = "ID" THEN "load" ELSE "literal"
          /\ node.left.kind = "ID" => Emitted[1].x = Named(node.left.name)
          /\ node.left.kind # "ID" => Emitted[1].value = IntV(node.left.value)
          /\ Emitted[2].op = "load"
          /\ Emitted[2].x = Named(node.right.name)
          /\ last.op = binary_op[node.op]
          /\ last.x = Emitted[1].z
          /\ last.y = Emitted[2].z
          /\ last.z = ev.ret
          /\ ev.ret.k = "temp"
          /\ ev.ret \notin TempsBefore \cup {Emitted[1].z, Emitted[2].z}
          /\ Emitted[1].z # Emitted[2].z
          /\ \A lv, rv \in OperandValues :
               LET ran == ExecStraight(Front(Emitted), OpFrame(lv, rv),
                                       AssignTable)
                   left == IF node.left.kind = "ID" THEN lv
                           ELSE IntV(node.left.value)
               IN  /\ ran.regs[last.x.i + 1] = left
                   /\ ran.regs[last.y.i + 1] = rv
                   /\ LET result == BinOp(last.op, last.type, left, rv) IN
                      ~IsError(result) =>
                        ExecStraight(Emitted, OpFrame(lv, rv), AssignTable)
                          .regs[ev.ret.i + 1] = result

\* A second operation, an && whose left operand is the constant 0, was
\* visited in a block of a function with formals.
C33_Witness ==
    /\ ev.op = "visit_BinaryOp"
    /\ ev.args[1].op = "&&"
    /\ ev.args[1].left.kind = "IntConstant"
    /\ hist.n = 2
    /\ hist.formals[1] > 0
    /\ Len(ev.before.functions[1].blocks[1].instr) = 3

\* The define of f was executed in a run of the list for f(1, g(..)).
InNestedCallee ==
    /\ \E n \in 0 .. 1 : code = ProgNested(n)
    /\ ev.op = "define"
    /\ code[ev.at + 1].x = Global("f")

\* C34: the value queued for the first formal of f before the call of g is
\* still delivered, with the result of g for the second formal, once g has
\* been called and has returned.
C34_NestedArgumentsDelivered ==
    InNestedCallee => registers = << IntV(1), IntV(2) >>

\* What f receives: its first formal holds nothing, the second the result
\* of g.
C34_FirstArgumentLost ==
    InNestedCallee => registers = << Uninit, IntV(2) >>

\* Every define leaves the queue empty, whatever it held and however many
\* formals the function has.
C34_DefineEmptiesQueue ==
    [][Running("define") => params' = << >>]_vars_all

\* The define of g was entered with the value for f still in the queue.
C34_QueuedAcrossCall ==
    /\ ev.op = "define"
    /\ code[ev.at + 1].x = Global("g")
    /\ ev.call.pushed # << >>
    /\ Len(ev.call.pushed) > Len(code[ev.at + 1].args)

\* The step just taken was a return matching a call that names no target
\* register.
ReturnedNoTarget == Returned /\ ev.call.target.k # "temp"

\* C35: right after the return matching a call that names no target, every
\* register of the caller's bank, register 0 included, holds what it held
\* when the call was executed.
C35_BankKeptWithoutTarget ==
    ReturnedNoTarget =>
      \A r \in 0 .. Longest(registers, ev.call.registers) - 1 :
        Reg(registers, r) = Reg(ev.call.registers, r)

\* What the code keeps for such a call: every register except register 0.
C35_AllButZeroKept ==
    ReturnedNoTarget =>
      \A r \in 1 .. Longest(registers, ev.call.registers) - 1 :
        Reg(registers, r) = Reg(ev.call.registers, r)

\* A call without target has returned into a caller whose register 0 held a
\* value at the call and now holds another one.
C35_ZeroOverwritten ==
    /\ ReturnedNoTarget
    /\ Reg(ev.call.registers, 0) = IntV(3)
    /\ Reg(registers, 0) = IntV(7)

\* A return with no operand is about to run inside a call.
AtBareReturn ==
    /\ Running("return")
    /\ Fetched.z.k = "none"
    /\ calls # << >>

\* C36: a return with no operand executed inside a call completes, whatever
\* the callee: the run goes on at the instruction after the call with the
\* caller's table and allocation mark.
C36_BareReturnCompletes ==
    [][AtBareReturn =>
         /\ status' = "running"
         /\ pc' = Last(calls).at + 1
         /\ vars' = Last(calls).vars
         /\ offset' = Last(calls).offset]_vars_all

\* It does complete whenever the callee's bank has a register 0, because of
\* a formal or of a write.
C36_CompletesWithRegister ==
    [][(AtBareReturn /\ Len(registers) > 0) =>
         /\ status' = "running"
         /\ pc' = Last(calls).at + 1
         /\ vars' = Last(calls).vars
         /\ offset' = Last(calls).offset]_vars_all

\* With an empty bank it never does: the read of register 0 raises.
C36_EmptyBankRaises ==
    [][(AtBareReturn /\ Len(registers) = 0) =>
         (status' = "crashed" /\ exc' = "IndexError")]_vars_all

\* The run of a callee without formals that wrote no register has ended in
\* its return, the caller's frame still saved.
C36_RaisedInReturn ==
    /\ code = ProgBare(FALSE, 0)
    /\ status = "crashed"
    /\ exc = "IndexError"
    /\ calls # << >>
    /\ registers = << >>

\* C37: whatever new_literal calls were made, the symbols returned for two
\* different (type, value) pairs are written differently, also when the
\* two type names become the same string once sanitized.
C37_RenderedNamesDistinct ==
    \A i, j \in 1 .. Len(hist.literals) :
      hist.literals[i].args # hist.literals[j].args =>
        TextVariable__str__(hist.literals[i].ret)
          # TextVariable__str__(hist.literals[j].ret)

\* Literals of two type names with the same sanitized form were made, and
\* they share the name and differ in the version.
C37_Witness ==
    \E i, j \in 1 .. Len(hist.literals) :
      /\ hist.literals[i].args[1] = "char[2]"
      /\ hist.literals[j].args[1] = "char_2_"
      /\ hist.literals[i].ret.s = hist.literals[j].ret.s
      /\ TextVariable__str__(hist.literals[i].ret) = "@.const_char_2_.1"
      /\ TextVariable__str__(hist.literals[j].ret) = "@.const_char_2_.0"

\* The label names of the blocks of function f, in order.
LabelsOf(f) == [b \in 1 .. Len(f.blocks) |-> f.blocks[b].label_def.x.s]

NoLabelTwice(f) ==
    \A a, b \in 1 .. Len(f.blocks) :
      a # b => LabelsOf(f)[a] # LabelsOf(f)[b]

\* The step is a new_block call that either gives no name or gives a name
\* no block of the function has yet.
NewBlockWithNewName ==
    /\ hist'.n = hist.n + 1
    /\ ev'.op = "new_block"
    /\ \/ ev'.args = << "" >>
       \/ \A b \in 1 .. Len(glob.functions[ev'.fn].blocks) :
            LabelsOf(glob.functions[ev'.fn])[b] # ev'.args[1]

\* C38: the blocks of a function keep pairwise different label names
\* through every new_block call, with a name or without, as long as no
\* explicit name is given twice.
C38_LabelsDistinct ==
    [][(NewBlockWithNewName /\ NoLabelTwice(glob.functions[ev'.fn])) =>
         NoLabelTwice(glob'.functions[ev'.fn])]_vars_all

\* The generated names alone never repeat within a function.
C38_GeneratedDistinct ==
    \A fn \in 1 .. Len(glob.functions) :
      \A a, b \in 1 .. Len(hist.unnamed[fn]) :
        a # b => hist.unnamed[fn][a] # hist.unnamed[fn][b]

\* A block was named .L0 by the caller, and the first unnamed block of the
\* same function was given .L0 as well.
C38_DuplicateReached ==
    /\ ev.op = "new_block"
    /\ ev.args = << "" >>
    /\ LabelsOf(glob.functions[ev.fn]) = << ".L0", ".L0" >>
    /\ hist.unnamed[ev.fn] = << ".L0" >>

\* Every cell from the allocation mark up reads as uninitialized.
CleanAbove(mark, mem) == \A a \in mark .. MemSize - 1 : mem[a] = Uninit

\* C39: making an Interpreter leaves the memory as the instances that
\* exist observe it, and a run on an instance that was not run before
\* starts, once its globals are stored, with every cell it has not written
\* uninitialized, whatever instances were made or run earlier.
C39_InstancesIsolated ==
    [][/\ hist'.made > hist.made => M' = M
       /\ (ev'.op = "run" /\ status' = "running") =>
            CleanAbove(offset', M')]_vars_all

\* With a single instance in the process the run does start on a memory
\* that holds nothing but its globals.
C39_AloneStartsClean ==
    (hist.made = 1 /\ ev.op = "run" /\ status = "running") =>
      CleanAbove(offset, M)

\* Every instance made empties the memory, whatever a run had left in it.
C39_MakingClears ==
    [][hist'.made > hist.made => CleanAbove(0, M')]_vars_all

\* A second instance was made after the run of the first, whose stored
\* local it wiped.
C39_WipedByMaking ==
    /\ ev.op = "__init__"
    /\ code = ProgStore(7)
    /\ status = "done"
    /\ vars # EmptyMap
    /\ CleanAbove(0, M)

\* Two instances were made, the first ran ProgStore, the second ProgPeek:
\* the local the second never wrote printed the 7 the first had stored.
C39_LeftoverRead ==
    /\ hist.made = 2
    /\ code = ProgPeek
    /\ status = "done"
    /\ registers[1] = IntV(7)
    /\ out # << >>

\* A read of int or float type is about to run on a line that begins with
\* a token that is no number.
AtMalformedRead ==
    /\ Running("read")
    /\ Fetched.type \in {"int", "float"}
    /\ ~ReadLine(input, stdin).hung
    /\ FirstSpace(ReadLine(input, stdin).input, 1) # 1
    /\ ~IsNumeral(Token(ReadLine(input, stdin).input))

\* C40: a numeric read given up on a token that is no number reports the
\* illegal value and leaves in the buffer only what follows that token, so
\* that the next read starts at the token after it.
C40_OffendingTokenDropped ==
    [][AtMalformedRead =>
         LET line == ReadLine(input, stdin).input IN
         /\ errs' = Append(errs, "Illegal input value.")
         /\ Len(input') <= Len(line) - Len(Token(line))
         /\ input' = SubSeq(line, Len(line) - Len(input') + 1,
                            Len(line))]_vars_all

\* It is dropped when a space follows it on the line: the buffer is then
\* what follows that space.
C40_DroppedWhenFollowed ==
    [][(AtMalformedRead /\ FirstSpace(ReadLine(input, stdin).input, 1) > 1) =>
         LET line == ReadLine(input, stdin).input IN
         /\ errs' = Append(errs, "Illegal input value.")
         /\ input' = SubSeq(line, FirstSpace(line, 1) + 1,
                            Len(line))]_vars_all

\* It stays when it is the last token of the line: the buffer is the whole
\* line again.
C40_KeptWhenLast ==
    [][(AtMalformedRead /\ FirstSpace(ReadLine(input, stdin).input, 1) = 0) =>
         /\ errs' = Append(errs, "Illegal input value.")
         /\ input' = ReadLine(input, stdin).input]_vars_all

\* Two reads in a row were given up on the same token, which is still in
\* the buffer.
C40_FailedTwiceOnSame ==
    /\ code = ProgReadTwice
    /\ ev.op = "read"
    /\ ev.at = 6
    /\ errs = << "Illegal input value.", "Illegal input value." >>
    /\ input = << "x" >>
    /\ stdin = << >>

=============================================================================
